---- MODULE Spec2Model ----
(***************************************************************************)
(* Verification model of the embacle LLM gateway core:                     *)
(*   - the bounded process runner (src/src/process.rs) and the call sites  *)
(*     that spawn subprocesses with or without it,                         *)
(*   - the guarded stream (src/src/stream.rs) and the streaming adapters,  *)
(*   - the adapter registry (crates/embacle-server/src/state.rs) and the   *)
(*     multiplex engine (crates/embacle-server/src/runner/multiplex.rs).   *)
(* Each subsystem has its own variables and its own specification; the     *)
(* variables of the other subsystems stay at their initial values.         *)
(***************************************************************************)
EXTENDS Integers, Sequences, FiniteSets, TLC

\* ------------------------------------------------------------------------
\* Bounds of the model
\* ------------------------------------------------------------------------
\* most bytes a child writes on one pipe
MaxWrite == 4
\* largest non-default cap a caller passes as max_output_bytes
MaxCap == 2
\* capacity of an OS pipe buffer, in bytes (scaled)
PipeCapacity == 2

\* ------------------------------------------------------------------------
\* Program constants (scaled: one model byte stands for a block of bytes)
\* ------------------------------------------------------------------------
\* process.rs:17  DEFAULT_MAX_OUTPUT_BYTES = 10 MiB, scaled to 3
DEFAULT_MAX_OUTPUT_BYTES == 3
\* process.rs:36  tmp = [0u8; 8192], scaled to 2
TMP_BUF_LEN == 2

None == "None"

Min(a, b) == IF a < b THEN a ELSE b

\* the bytes lo..hi of what a child writes on a pipe: byte k has value k, so
\* a captured buffer is a prefix of the written stream iff it is <<1,..,m>>
Bytes(lo, hi) == [k \in 1..(hi - lo + 1) |-> lo + k - 1]

IsPrefix(s, t) == /\ Len(s) <= Len(t)
                  /\ \A k \in 1..Len(s) : s[k] = t[k]

\* ========================================================================
\* Subprocess invocations: the bounded run and the unbounded call sites
\* ========================================================================
Pipes == {"stdout", "stderr"}

\* the call sites that spawn a subprocess and wait for it to exit
Invocations == {"complete", "health_check", "readiness_probe",
                "version_probe", "model_discovery"}

\* which call sites go through run_cli_command (timeout and cap); the
\* capability probe and the Copilot model discovery call Command::output()
UsesBoundedRun(inv) == inv \in {"complete", "health_check", "readiness_probe"}

\* copilot.rs:64-68: the model discovery gives the child no stderr pipe
\* (Stdio::null()); every other call site pipes both streams
Piped(inv, p) == ~(inv = "model_discovery" /\ p = "stderr")

VARIABLES
    invocation,        \* the call site
    max_output_bytes,  \* the cap argument of run_cli_command
    want,              \* bytes the child writes on each pipe before exiting
    hangs,             \* TRUE: the child never exits by itself
    descendant,        \* a process the child started, which inherited the
                       \* write ends of its pipes: "none" | "holding" | "exited"
    run_pc,            \* position of the caller
    child,             \* "none" | "running" | "zombie" | "reaped"
    exit_code,         \* exit code of a terminated child (-1: killed by a signal)
    kill_sent,         \* the caller sent the child a kill signal
    timer_armed,       \* a wall-clock timeout bounds the wait
    timed_out,         \* the timeout elapsed before the child exited
    written,           \* bytes the child has written on each pipe so far
    consumed,          \* bytes the drainer has read from each pipe so far
    buf,               \* the drainer's capture buffer of each pipe
    drainer,           \* "none" | "running" | "done" | "aborted"
    broken_pipe,       \* the child wrote on a pipe whose read end was closed
    run_result         \* what the call returned

runVars == <<invocation, max_output_bytes, want, hangs, descendant, run_pc, child,
             exit_code, kill_sent, timer_armed, timed_out, written, consumed,
             buf, drainer, broken_pipe, run_result>>

\* ---- guarded stream (stream.rs) and streaming adapters ----
VARIABLES
    s_adapter,     \* the streaming adapter that built the stream
    s_script,      \* the lines the child writes on stdout, in order
    s_written,     \* how many of them it has written
    s_read,        \* how many of them the inner stream has read
    s_state,       \* "start" | "open" | "dropped" | "failed"
    s_ended,       \* the inner stream returned None (end of stdout)
    s_items,       \* the items the stream has yielded
    s_child,       \* "none" | "running" | "zombie" | "reaped"
    s_kill_sent,   \* start_kill() was called on the child
    s_abort_sent,  \* abort() was called on the stderr drain task
    s_drain        \* stderr drain task: "none" | "running" | "done" | "aborted"

streamVars == <<s_adapter, s_script, s_written, s_read, s_state, s_ended,
                s_items, s_child, s_kill_sent, s_abort_sent, s_drain>>

\* ---- adapter registry (state.rs) and multiplex engine (multiplex.rs) ----
VARIABLES
    providers,     \* the provider list passed to MultiplexEngine::execute
    binary,        \* per provider kind: "found" | "missing" (binary resolution)
    runners,       \* the registry cache: kind -> adapter instance (0: no entry)
    built,         \* per kind: how many adapter instances were constructed
    lock,          \* the task holding the registry mutex (0: free)
    spawned,       \* how many tasks execute has spawned
    t_pc,          \* per task: its position
    t_first,       \* per task: it called get_runner while the cache had no entry
    t_got,         \* per task: the adapter instance get_runner returned (0: none)
    t_out,         \* per task: the ProviderResponse dispatch_single returned
    out_of_order,  \* some task finished before a task of lower index
    responses,     \* the responses vector execute builds
    mux_pc,        \* "spawning" | "joining" | "returned"
    mux_result     \* what execute returned

muxVars == <<providers, binary, runners, built, lock, spawned, t_pc, t_first,
             t_got, t_out, out_of_order, responses, mux_pc, mux_result>>

VARIABLES
    a_kind,            \* the kind of the adapter the calls go to
    session_ids,       \* the adapter's session map: model name -> session id
    stored_last,       \* history: per model, the session id of the latest
                       \* successful response that carried one
    calls              \* the completions in flight on the adapter

sessVars == <<a_kind, session_ids, stored_last, calls>>

VARIABLES
    cc_pc,             \* position of one Claude Code complete call
    cc_child,          \* what the child process did: run outcome, exit code,
                       \* the document it wrote on stdout
    cc_raw,            \* output.stdout as run_cli_command returned it
    cc_parsed,         \* parse_response has been called
    cc_result          \* what complete returned

claudeVars == <<cc_pc, cc_child, cc_raw, cc_parsed, cc_result>>

VARIABLES
    model_str,         \* the model address of a request
    default_provider,  \* the server's default provider
    resolved,          \* what resolve_model returned
    model_name,        \* the "<provider>:<model>" name the response carries
    resolved_again     \* what resolve_model returns for model_name

resolveVars ==
    <<model_str, default_provider, resolved, model_name, resolved_again>>

VARIABLES
    api_key,           \* the EMBACLE_API_KEY environment variable
    r_default,         \* the REST server's default provider
    r_installed,       \* the kinds whose binary is on PATH
    r_override,        \* the <PROVIDER>_BINARY overrides in effect
    r_runners,         \* the kinds with an adapter in the server's cache
    r_req,             \* the REST request being processed
    r_pc,              \* how far the processing of the request is
    r_addr,            \* the address handed to the single-provider path
    r_started,         \* tasks and subprocesses started for the request
    r_resp             \* the response sent for the request

restVars ==
    <<api_key, r_default, r_installed, r_override, r_runners, r_req, r_pc,
      r_addr, r_started, r_resp>>

VARIABLES
    mcp_transport,     \* the transport the MCP server runs on
    mcp_msg,           \* the message being processed
    mcp_pc,            \* how far the processing of the message is
    mcp_reply,         \* what the transport sent back for the message
    mcp_replies,       \* JSON-RPC responses sent for the message
    mcp_started        \* completions the message started

mcpVars ==
    <<mcp_transport, mcp_msg, mcp_pc, mcp_reply, mcp_replies, mcp_started>>

VARIABLES
    id_clock,          \* the seconds SystemTime::now() reads
    id_counter,        \* ID_COUNTER
    id_task,           \* per task: its position in generate_id and its ts
    ids                \* the ids generated so far, in order

idVars == <<id_clock, id_counter, id_task, ids>>

VARIABLES
    pr_kind,           \* the provider whose readiness is checked
    pr_exists,         \* binary_path.exists()
    pr_gh,             \* how a run of `gh auth status` ends
    pr_cli,            \* how a run of the provider's own probe ends
    pr_pc,             \* the position of check_readiness
    pr_ran,            \* the probes check_readiness has run, in order
    pr_result          \* what check_readiness returned

probeVars == <<pr_kind, pr_exists, pr_gh, pr_cli, pr_pc, pr_ran, pr_result>>

VARIABLES
    e_kind,            \* the adapter that builds the command
    e_mode,            \* "complete" or "stream"
    e_parent,          \* the environment of the gateway process
    e_allowed,         \* config.allowed_env_keys
    e_wd,              \* config.working_directory
    e_cwd_ok,          \* whether env::current_dir() succeeds
    e_max_tokens,      \* whether the request sets max_tokens
    e_pc,              \* the position of the completion
    e_cmd,             \* the Command that build_command returned
    e_child            \* the environment of the spawned child

envVars ==
    <<e_kind, e_mode, e_parent, e_allowed, e_wd, e_cwd_ok, e_max_tokens,
      e_pc, e_cmd, e_child>>

VARIABLES
    pa_kind,           \* the adapter that assembles the prompt
    pa_mode,           \* "complete" or "stream"
    pa_messages,       \* request.messages
    pa_pc,             \* the position of the call
    pa_system,         \* the text given to --system-prompt, if any
    pa_prompt          \* the prompt text given to the CLI

promptVars == <<pa_kind, pa_mode, pa_messages, pa_pc, pa_system, pa_prompt>>

VARIABLES
    ts_state,          \* the ServerState behind the RwLock
    ts_lock,           \* the task that holds the write guard, 0 when free
    ts_tasks,          \* the tool calls in progress, one per connection task
    ts_calls,          \* the number of tool calls started
    ts_installed,      \* the kinds whose runner the factory can create
    ts_history         \* the (provider, model) pairs that have been active

toolVars ==
    <<ts_state, ts_lock, ts_tasks, ts_calls, ts_installed, ts_history>>

VARIABLES
    tl_max_iterations, \* the max_iterations argument
    tl_pc,             \* the position in execute_with_text_tools
    tl_iteration,      \* the loop variable
    tl_pending,        \* the parsed tool calls not yet handed to the handler
    tl_parsed,         \* the number of tool calls parsed from the response
    tl_count,          \* tool_calls_count
    tl_appended,       \* the messages pushed onto the conversation
    tl_completions,    \* the provider.complete calls made
    tl_handled,        \* the tool_handler invocations made
    tl_plain,          \* the responses without a tool call received
    tl_result          \* what the function returned

loopVars ==
    <<tl_max_iterations, tl_pc, tl_iteration, tl_pending, tl_parsed, tl_count,
      tl_appended, tl_completions, tl_handled, tl_plain, tl_result>>

VARIABLES
    rg_kind,           \* per caller: the provider kind it asks for
    rg_pc,             \* per caller: its position in get_runner
    rg_lock,           \* the caller holding the runners mutex, 0 when free
    rg_runners,        \* the kinds with a cached adapter
    rg_found           \* the kinds whose binary resolves

regVars == <<rg_kind, rg_pc, rg_lock, rg_runners, rg_found>>

VARIABLES
    ml_created,        \* the kinds whose binary resolves and adapter is built
    ml_discovered,     \* the models `gh copilot models` printed, if it did
    ml_default,        \* the server's default provider
    ml_pc,             \* "start", "listed" or "resolved"
    ml_data,           \* the data array of the GET /v1/models response
    ml_sent,           \* the position in ml_data of the id sent back
    ml_resolved        \* what the id sent back resolved to

listVars ==
    <<ml_created, ml_discovered, ml_default, ml_pc, ml_data, ml_sent,
      ml_resolved>>

vars ==
    <<runVars, streamVars, muxVars, sessVars, claudeVars, resolveVars,
      restVars, mcpVars, idVars, probeVars, envVars, promptVars,
      toolVars, loopVars, regVars, listVars>>

notRunVars ==
    <<streamVars, muxVars, sessVars, claudeVars, resolveVars, restVars,
      mcpVars, idVars, probeVars, envVars, promptVars, toolVars,
      loopVars, regVars, listVars>>
notStreamVars ==
    <<runVars, muxVars, sessVars, claudeVars, resolveVars, restVars,
      mcpVars, idVars, probeVars, envVars, promptVars, toolVars,
      loopVars, regVars, listVars>>
notMuxVars ==
    <<runVars, streamVars, sessVars, claudeVars, resolveVars, restVars,
      mcpVars, idVars, probeVars, envVars, promptVars, toolVars,
      loopVars, regVars, listVars>>
notSessVars ==
    <<runVars, streamVars, muxVars, claudeVars, resolveVars, restVars,
      mcpVars, idVars, probeVars, envVars, promptVars, toolVars,
      loopVars, regVars, listVars>>
notClaudeVars ==
    <<runVars, streamVars, muxVars, sessVars, resolveVars, restVars,
      mcpVars, idVars, probeVars, envVars, promptVars, toolVars,
      loopVars, regVars, listVars>>
notResolveVars ==
    <<runVars, streamVars, muxVars, sessVars, claudeVars, restVars,
      mcpVars, idVars, probeVars, envVars, promptVars, toolVars,
      loopVars, regVars, listVars>>
notRestVars ==
    <<runVars, streamVars, muxVars, sessVars, claudeVars, resolveVars,
      mcpVars, idVars, probeVars, envVars, promptVars, toolVars,
      loopVars, regVars, listVars>>
notMcpVars ==
    <<runVars, streamVars, muxVars, sessVars, claudeVars, resolveVars,
      restVars, idVars, probeVars, envVars, promptVars, toolVars,
      loopVars, regVars, listVars>>
notIdVars ==
    <<runVars, streamVars, muxVars, sessVars, claudeVars, resolveVars,
      restVars, mcpVars, probeVars, envVars, promptVars, toolVars,
      loopVars, regVars, listVars>>
notProbeVars ==
    <<runVars, streamVars, muxVars, sessVars, claudeVars, resolveVars,
      restVars, mcpVars, idVars, envVars, promptVars, toolVars, loopVars,
      regVars, listVars>>
notEnvVars ==
    <<runVars, streamVars, muxVars, sessVars, claudeVars, resolveVars,
      restVars, mcpVars, idVars, probeVars, promptVars, toolVars,
      loopVars, regVars, listVars>>
notPromptVars ==
    <<runVars, streamVars, muxVars, sessVars, claudeVars, resolveVars,
      restVars, mcpVars, idVars, probeVars, envVars, toolVars, loopVars,
      regVars, listVars>>
notToolVars ==
    <<runVars, streamVars, muxVars, sessVars, claudeVars, resolveVars,
      restVars, mcpVars, idVars, probeVars, envVars, promptVars,
      loopVars, regVars, listVars>>
notLoopVars ==
    <<runVars, streamVars, muxVars, sessVars, claudeVars, resolveVars,
      restVars, mcpVars, idVars, probeVars, envVars, promptVars,
      toolVars, regVars, listVars>>
notRegVars ==
    <<runVars, streamVars, muxVars, sessVars, claudeVars, resolveVars,
      restVars, mcpVars, idVars, probeVars, envVars, promptVars,
      toolVars, loopVars, listVars>>
notListVars ==
    <<runVars, streamVars, muxVars, sessVars, claudeVars, resolveVars,
      restVars, mcpVars, idVars, probeVars, envVars, promptVars,
      toolVars, loopVars, regVars>>

\* a subsystem that takes no part in a specification stays in this state
RunIdle ==
    /\ invocation = "complete"
    /\ max_output_bytes = 0
    /\ want = [p \in {"stdout", "stderr"} |-> 0]
    /\ hangs = FALSE
    /\ descendant = "none"
    /\ run_pc = "idle"
    /\ child = "none"
    /\ exit_code = 0
    /\ kill_sent = FALSE
    /\ timer_armed = FALSE
    /\ timed_out = FALSE
    /\ written = [p \in {"stdout", "stderr"} |-> 0]
    /\ consumed = [p \in {"stdout", "stderr"} |-> 0]
    /\ buf = [p \in {"stdout", "stderr"} |-> <<>>]
    /\ drainer = [p \in {"stdout", "stderr"} |-> "none"]
    /\ broken_pipe = [p \in {"stdout", "stderr"} |-> FALSE]
    /\ run_result = [kind |-> "none", stdout |-> <<>>, stderr |-> <<>>,
                     exit_code |-> 0]

StreamIdle ==
    /\ s_adapter = "copilot"
    /\ s_script = <<>>
    /\ s_written = 0
    /\ s_read = 0
    /\ s_state = "idle"
    /\ s_ended = FALSE
    /\ s_items = <<>>
    /\ s_child = "none"
    /\ s_kill_sent = FALSE
    /\ s_abort_sent = FALSE
    /\ s_drain = "none"

SessIdle ==
    /\ a_kind = "ClaudeCode"
    /\ session_ids = <<>>
    /\ stored_last = <<>>
    /\ calls = <<>>

ClaudeIdle ==
    /\ cc_pc = "idle"
    /\ cc_child = <<>>
    /\ cc_raw = <<>>
    /\ cc_parsed = FALSE
    /\ cc_result = <<>>

ResolveIdle ==
    /\ model_str = <<>>
    /\ default_provider = "ClaudeCode"
    /\ resolved = [called |-> FALSE]
    /\ model_name = <<>>
    /\ resolved_again = [called |-> FALSE]

RestIdle ==
    /\ api_key = [set |-> FALSE, val |-> <<>>]
    /\ r_default = "ClaudeCode"
    /\ r_installed = {}
    /\ r_override = "none"
    /\ r_runners = {}
    /\ r_req = [route |-> "none"]
    /\ r_pc = "idle"
    /\ r_addr = <<>>
    /\ r_started = 0
    /\ r_resp = [status |-> 0]

McpIdle ==
    /\ mcp_transport = "stdio"
    /\ mcp_msg = [json |-> FALSE]
    /\ mcp_pc = "waiting"
    /\ mcp_reply = [kind |-> "none"]
    /\ mcp_replies = 0
    /\ mcp_started = 0

IdIdle ==
    /\ id_clock = 0
    /\ id_counter = 0
    /\ id_task = <<>>
    /\ ids = <<>>

ProbeIdle ==
    /\ pr_kind = "ClaudeCode"
    /\ pr_exists = FALSE
    /\ pr_gh = [run |-> "exited", exit_code |-> 0]
    /\ pr_cli = [run |-> "exited", exit_code |-> 0]
    /\ pr_pc = "idle"
    /\ pr_ran = <<>>
    /\ pr_result = [kind |-> "none"]

EnvIdle ==
    /\ e_kind = "ClaudeCode"
    /\ e_mode = "complete"
    /\ e_parent = <<>>
    /\ e_allowed = {}
    /\ e_wd = "none"
    /\ e_cwd_ok = TRUE
    /\ e_max_tokens = FALSE
    /\ e_pc = "idle"
    /\ e_cmd = <<>>
    /\ e_child = <<>>

PromptIdle ==
    /\ pa_kind = "ClaudeCode"
    /\ pa_mode = "complete"
    /\ pa_messages = <<>>
    /\ pa_pc = "idle"
    /\ pa_system = [some |-> FALSE, val |-> ""]
    /\ pa_prompt = <<>>

ToolIdle ==
    /\ ts_state = <<>>
    /\ ts_lock = 0
    /\ ts_tasks = <<>>
    /\ ts_calls = 0
    /\ ts_installed = {}
    /\ ts_history = {}

LoopIdle ==
    /\ tl_max_iterations = 0
    /\ tl_pc = "idle"
    /\ tl_iteration = 0
    /\ tl_pending = 0
    /\ tl_parsed = 0
    /\ tl_count = 0
    /\ tl_appended = 0
    /\ tl_completions = 0
    /\ tl_handled = 0
    /\ tl_plain = 0
    /\ tl_result = [kind |-> "none", finish_reason |-> "", tool_calls_count |-> 0]

RegIdle ==
    /\ rg_kind = <<>>
    /\ rg_pc = <<>>
    /\ rg_lock = 0
    /\ rg_runners = {}
    /\ rg_found = {}

ListIdle ==
    /\ ml_created = {}
    /\ ml_discovered = [some |-> FALSE, val |-> <<>>]
    /\ ml_default = "ClaudeCode"
    /\ ml_pc = "idle"
    /\ ml_data = <<>>
    /\ ml_sent = 0
    /\ ml_resolved = [called |-> FALSE]

NoResult == [kind |-> "none", stdout |-> <<>>, stderr |-> <<>>, exit_code |-> 0]

\* process.rs:91-95
EffectiveMax(m) == IF m = 0 THEN DEFAULT_MAX_OUTPUT_BYTES ELSE m

\* Command::output() reads each pipe to its end without a cap
NoLimit == MaxWrite + 1

DrainLimit == IF UsesBoundedRun(invocation) THEN EffectiveMax(max_output_bytes)
              ELSE NoLimit

\* process.rs:41-42: remaining = limit.saturating_sub(buf.len());
\*                   buf.extend_from_slice(&tmp[..n.min(remaining)])
ExtendUncapped(b, chunk, limit) == b \o chunk

ExtendCapped(b, chunk, limit) ==
    LET remaining == IF limit > Len(b) THEN limit - Len(b) ELSE 0
    IN  b \o SubSeq(chunk, 1, Min(Len(chunk), remaining))

RunInit ==
    /\ invocation \in Invocations
    /\ max_output_bytes \in (IF UsesBoundedRun(invocation) THEN 0..MaxCap ELSE {0})
    /\ want \in [Pipes -> 0..MaxWrite]
    /\ hangs \in BOOLEAN
    /\ descendant = "none"
    /\ run_pc = "start"
    /\ child = "none"
    /\ exit_code = 0
    /\ kill_sent = FALSE
    /\ timer_armed = FALSE
    /\ timed_out = FALSE
    /\ written = [p \in Pipes |-> 0]
    /\ consumed = [p \in Pipes |-> 0]
    /\ buf = [p \in Pipes |-> <<>>]
    /\ drainer = [p \in Pipes |-> "none"]
    /\ broken_pipe = [p \in Pipes |-> FALSE]
    /\ run_result = NoResult

\* process.rs:102-104: spawn failure is an Internal error
SpawnFails ==
    /\ run_pc = "start"
    /\ run_pc' = "returned"
    /\ run_result' = [NoResult EXCEPT !.kind = "Internal"]
    /\ UNCHANGED <<descendant, invocation, max_output_bytes, want, hangs, child, exit_code,
                   kill_sent, timer_armed, timed_out, written, consumed, buf,
                   drainer, broken_pipe>>
    /\ UNCHANGED notRunVars

\* process.rs:102-112: spawn, start both drainers, wait under the timeout;
\* compat.rs:108-113 and copilot.rs:64-68: spawn and wait with no timeout
Spawn ==
    /\ run_pc = "start"
    /\ run_pc' = "waiting"
    /\ child' = "running"
    /\ drainer' = [p \in Pipes |-> IF Piped(invocation, p) THEN "running"
                                    ELSE "none"]
    /\ timer_armed' = UsesBoundedRun(invocation)
    /\ UNCHANGED <<descendant, invocation, max_output_bytes, want, hangs, exit_code,
                   kill_sent, timed_out, written, consumed, buf, broken_pipe,
                   run_result>>
    /\ UNCHANGED notRunVars

\* the child writes one byte on stream p: a write to a null stream always
\* succeeds; a write to a pipe blocks while the pipe is full and kills the
\* child (SIGPIPE) when the read end has been closed
ChildWrite(p) ==
    /\ child = "running"
    /\ written[p] < want[p]
    /\ IF ~Piped(invocation, p)
       THEN /\ written' = [written EXCEPT ![p] = @ + 1]
            /\ consumed' = [consumed EXCEPT ![p] = @ + 1]
            /\ UNCHANGED <<child, exit_code, broken_pipe>>
       ELSE IF drainer[p] = "running"
       THEN /\ written[p] - consumed[p] < PipeCapacity
            /\ written' = [written EXCEPT ![p] = @ + 1]
            /\ UNCHANGED <<child, exit_code, broken_pipe, consumed>>
       ELSE /\ broken_pipe' = [broken_pipe EXCEPT ![p] = TRUE]
            /\ child' = "zombie"
            /\ exit_code' = -1
            /\ UNCHANGED <<written, consumed>>
    /\ UNCHANGED <<descendant, invocation, max_output_bytes, want, hangs, run_pc,
                   kill_sent, timer_armed, timed_out, buf, drainer,
                   run_result>>
    /\ UNCHANGED notRunVars

\* the child exits by itself once it has written all its output
ChildExit ==
    /\ child = "running"
    /\ ~hangs
    /\ \A p \in Pipes : written[p] = want[p]
    /\ child' = "zombie"
    /\ exit_code' \in {0, 1}
    /\ UNCHANGED <<descendant, invocation, max_output_bytes, want, hangs, run_pc,
                   kill_sent, timer_armed, timed_out, written, consumed, buf,
                   drainer, broken_pipe, run_result>>
    /\ UNCHANGED notRunVars

\* process.rs:37-47 / 58-68: one iteration of the read loop that got n > 0
\* bytes; the loop is left (and the read end dropped) once the cap is reached
DrainerRead(p, n) ==
    /\ drainer[p] = "running"
    /\ n >= 1
    /\ n <= Min(TMP_BUF_LEN, written[p] - consumed[p])
    /\ consumed' = [consumed EXCEPT ![p] = @ + n]
    /\ LET chunk == Bytes(consumed[p] + 1, consumed[p] + n)
           nbuf  == ExtendCapped(buf[p], chunk, DrainLimit)
       IN  /\ buf' = [buf EXCEPT ![p] = nbuf]
           /\ drainer' = [drainer EXCEPT ![p] =
                             IF Len(nbuf) >= DrainLimit THEN "done" ELSE "running"]
    /\ UNCHANGED <<descendant, invocation, max_output_bytes, want, hangs, run_pc, child,
                   exit_code, kill_sent, timer_armed, timed_out, written,
                   broken_pipe, run_result>>
    /\ UNCHANGED notRunVars

\* the child starts a process of its own, which inherits its stdout and
\* stderr and outlives it (a CLI that leaves a helper or a server behind)
ChildForks ==
    /\ child = "running"
    /\ descendant = "none"
    /\ descendant' = "holding"
    /\ UNCHANGED <<invocation, max_output_bytes, want, hangs, run_pc, child,
                   exit_code, kill_sent, timer_armed, timed_out, written,
                   consumed, buf, drainer, broken_pipe, run_result>>
    /\ UNCHANGED notRunVars

\* that process exits, if it ever does, and its copies of the write ends
\* are closed
DescendantExits ==
    /\ descendant = "holding"
    /\ descendant' = "exited"
    /\ UNCHANGED <<invocation, max_output_bytes, want, hangs, run_pc, child,
                   exit_code, kill_sent, timer_armed, timed_out, written,
                   consumed, buf, drainer, broken_pipe, run_result>>
    /\ UNCHANGED notRunVars

\* process.rs:39 / 60: read returns 0 at end of file: the pipe is empty and
\* every write end is closed (the child is gone and no process it started
\* holds the pipe)
DrainerEof(p) ==
    /\ drainer[p] = "running"
    /\ written[p] = consumed[p]
    /\ child \in {"zombie", "reaped"}
    /\ descendant # "holding"
    /\ drainer' = [drainer EXCEPT ![p] = "done"]
    /\ UNCHANGED <<descendant, invocation, max_output_bytes, want, hangs, run_pc, child,
                   exit_code, kill_sent, timer_armed, timed_out, written,
                   consumed, buf, broken_pipe, run_result>>
    /\ UNCHANGED notRunVars

\* process.rs:112-118: child.wait() completed within the timeout
WaitOk ==
    /\ run_pc = "waiting"
    /\ child = "zombie"
    /\ child' = "reaped"
    /\ run_pc' = "join_stdout"
    /\ run_result' = [run_result EXCEPT !.exit_code = exit_code]
    /\ UNCHANGED <<descendant, invocation, max_output_bytes, want, hangs, exit_code,
                   kill_sent, timer_armed, timed_out, written, consumed, buf,
                   drainer, broken_pipe>>
    /\ UNCHANGED notRunVars

\* process.rs:119: stdout_task.await
JoinStdout ==
    /\ run_pc = "join_stdout"
    /\ drainer["stdout"] = "done"
    /\ run_pc' = "join_stderr"
    /\ run_result' = [run_result EXCEPT !.stdout = buf["stdout"]]
    /\ UNCHANGED <<descendant, invocation, max_output_bytes, want, hangs, child, exit_code,
                   kill_sent, timer_armed, timed_out, written, consumed, buf,
                   drainer, broken_pipe>>
    /\ UNCHANGED notRunVars

\* process.rs:120-129: stderr_task.await, then return Ok(CliOutput)
JoinStderr ==
    /\ run_pc = "join_stderr"
    /\ drainer["stderr"] = "done" \/ ~Piped(invocation, "stderr")
    /\ run_pc' = "returned"
    /\ run_result' = [run_result EXCEPT !.stderr = buf["stderr"], !.kind = "Ok"]
    /\ UNCHANGED <<descendant, invocation, max_output_bytes, want, hangs, child, exit_code,
                   kill_sent, timer_armed, timed_out, written, consumed, buf,
                   drainer, broken_pipe>>
    /\ UNCHANGED notRunVars

\* process.rs:131-133: child.wait() itself failed
WaitFails ==
    /\ run_pc = "waiting"
    /\ child = "zombie"
    /\ run_pc' = "returned"
    /\ run_result' = [NoResult EXCEPT !.kind = "Internal"]
    /\ UNCHANGED <<descendant, invocation, max_output_bytes, want, hangs, child, exit_code,
                   kill_sent, timer_armed, timed_out, written, consumed, buf,
                   drainer, broken_pipe>>
    /\ UNCHANGED notRunVars

\* process.rs:134-141: the timeout elapsed: child.kill().await (kill and
\* reap), then return RunnerError::external_service; the two JoinHandles are
\* dropped, which detaches the drainer tasks
Timeout ==
    /\ run_pc = "waiting"
    /\ timer_armed
    /\ child = "running"
    /\ timed_out' = TRUE
    /\ kill_sent' = TRUE
    /\ child' = "reaped"
    /\ exit_code' = -1
    /\ run_pc' = "returned"
    /\ run_result' = [NoResult EXCEPT !.kind = "ExternalService"]
    /\ UNCHANGED <<descendant, invocation, max_output_bytes, want, hangs, timer_armed,
                   written, consumed, buf, drainer, broken_pipe>>
    /\ UNCHANGED notRunVars

RunNext ==
    \/ SpawnFails
    \/ Spawn
    \/ \E p \in Pipes : ChildWrite(p)
    \/ ChildExit
    \/ ChildForks
    \/ DescendantExits
    \/ \E p \in Pipes, n \in 1..TMP_BUF_LEN : DrainerRead(p, n)
    \/ \E p \in Pipes : DrainerEof(p)
    \/ WaitOk
    \/ JoinStdout
    \/ JoinStderr
    \/ WaitFails
    \/ Timeout

\* ========================================================================
\* Guarded stream and the streaming adapters
\* ========================================================================
\* most lines a child writes on stdout in one streaming completion
MaxLines == 2

StreamingAdapters == {"claude_code", "copilot", "cursor_agent"}

Texts == {"", "a"}

Line(t, x) == [type |-> t, text |-> x]

\* the stdout lines each CLI can write: Copilot writes plain text; the two
\* stream-json CLIs write one JSON event per line ("garbage" stands for a
\* line that is not valid JSON, "blank" for an empty line)
LinesOf(a) ==
    IF a = "copilot" THEN {Line("plain", x) : x \in Texts}
    ELSE IF a = "claude_code"
    THEN {Line("blank", ""), Line("system", ""), Line("garbage", "")}
         \cup {Line("assistant", x) : x \in Texts}
         \cup {Line("result", x) : x \in Texts}
    ELSE {Line("blank", ""), Line("other", ""), Line("garbage", "")}
         \cup {Line("content", x) : x \in Texts}
         \cup {Line("result", x) : x \in Texts}

SeqsUpTo(S, n) == UNION {[1..k -> S] : k \in 0..n}

Chunk(d, f, r) == [kind |-> "chunk", delta |-> d, is_final |-> f,
                   finish_reason |-> r]

ErrorItem(k) == [kind |-> "error", error |-> k]

\* claude_code.rs:311-363
ClaudeItem(line) ==
    IF line.type = "blank" THEN Chunk("", FALSE, None)
    ELSE IF line.type = "garbage" THEN ErrorItem("Internal")
    ELSE IF line.type = "result" THEN Chunk("", TRUE, "stop")
    ELSE IF line.type = "assistant" THEN Chunk(line.text, FALSE, None)
    ELSE Chunk("", FALSE, None)

\* copilot.rs:286-295
CopilotItem(line) == Chunk(line.text, FALSE, None)

\* cursor_agent.rs:275-318
CursorItem(line) ==
    IF line.type = "blank" THEN Chunk("", FALSE, None)
    ELSE IF line.type = "garbage" THEN ErrorItem("Internal")
    ELSE IF line.type = "result" THEN Chunk(line.text, TRUE, "stop")
    ELSE IF line.type = "content" THEN Chunk(line.text, FALSE, None)
    ELSE Chunk("", FALSE, None)

ItemOf(a, line) ==
    IF a = "copilot" THEN CopilotItem(line)
    ELSE IF a = "claude_code" THEN ClaudeItem(line)
    ELSE CursorItem(line)

\* the text of the stdout lines of a script, in order
RECURSIVE TextsOf(_)
TextsOf(script) ==
    IF script = <<>> THEN <<>>
    ELSE <<Head(script).text>> \o TextsOf(Tail(script))

\* &str::trim as copilot.rs:186 applies it to the whole stdout: leading and
\* trailing blank lines go, the lines in between stay
RECURSIVE TrimBlank(_)
TrimBlank(ls) ==
    IF ls = <<>> THEN <<>>
    ELSE IF Head(ls) = "" THEN TrimBlank(Tail(ls))
    ELSE IF ls[Len(ls)] = "" THEN TrimBlank(SubSeq(ls, 1, Len(ls) - 1))
    ELSE ls

\* the stdout text made of the lines ls: consecutive lines are separated by
\* a newline
RECURSIVE JoinLines(_)
JoinLines(ls) ==
    IF ls = <<>> THEN ""
    ELSE IF Len(ls) = 1 THEN Head(ls)
    ELSE Head(ls) \o "\n" \o JoinLines(Tail(ls))

\* copilot.rs:181-195 parse_response: the textual output of Copilot is its
\* stdout, trimmed
CopilotOutput(script) == JoinLines(TrimBlank(TextsOf(script)))

\* the text the events of a stream-json CLI carry, in order: "assistant"
\* events for Claude Code (claude_code.rs:334-349), "content" events and the
\* terminal "result" event for Cursor Agent (cursor_agent.rs:293-310)
RECURSIVE StreamJsonOutput(_, _)
StreamJsonOutput(a, script) ==
    IF script = <<>> THEN ""
    ELSE LET l == Head(script)
             carries == IF a = "claude_code" THEN l.type = "assistant"
                        ELSE l.type \in {"content", "result"}
         IN  (IF carries THEN l.text ELSE "") \o StreamJsonOutput(a, Tail(script))

\* the provider's textual output for the lines it wrote
ProviderOutput(a, script) ==
    IF a = "copilot" THEN CopilotOutput(script) ELSE StreamJsonOutput(a, script)

\* openai_types.rs:142-149 and the ChunkChoice around it: the data of one
\* SSE event, with None for an absent field
SseChunk(role, content, finish_reason) ==
    [kind |-> "chunk", role |-> role, content |-> content,
     finish_reason |-> finish_reason]

\* streaming.rs:73-81: the event made of a stream error
SseError ==
    [kind |-> "error", role |-> None, content |-> None, finish_reason |-> None]

\* streaming.rs:86-87: the [DONE] sentinel
SseDone ==
    [kind |-> "done", role |-> None, content |-> None, finish_reason |-> None]

\* streaming.rs:35-55: the event of one chunk; sent_role tells whether an
\* earlier chunk has been mapped
SseOfChunk(chunk, sent_role) ==
    IF ~sent_role
    THEN IF chunk.delta = "" /\ ~chunk.is_final
         THEN SseChunk("assistant", None, None)
         ELSE SseChunk("assistant", chunk.delta, chunk.finish_reason)
    ELSE IF chunk.is_final
    THEN SseChunk(None,
                  IF chunk.delta = "" THEN None ELSE chunk.delta,
                  IF chunk.finish_reason = None THEN "stop"
                  ELSE chunk.finish_reason)
    ELSE SseChunk(None, chunk.delta, None)

\* streaming.rs:32-83: stream.map over the items of the adapter's stream
RECURSIVE SseMap(_, _)
SseMap(items, sent_role) ==
    IF items = <<>> THEN <<>>
    ELSE IF Head(items).kind = "error"
    THEN <<SseError>> \o SseMap(Tail(items), sent_role)
    ELSE <<SseOfChunk(Head(items), sent_role)>> \o SseMap(Tail(items), TRUE)

\* an SSE adapter that sends no [DONE] after a stream that had an error
sse_response_no_done_after_error(items, ended) ==
    SseMap(items, FALSE)
    \o (IF ended /\ \A i \in 1..Len(items) : items[i].kind # "error"
        THEN <<SseDone>> ELSE <<>>)

\* streaming.rs:24-95 sse_response: the events sent so far for the items the
\* stream has yielded; [DONE] is chained after the end of the stream
sse_response(items, ended) ==
    SseMap(items, FALSE) \o (IF ended THEN <<SseDone>> ELSE <<>>)

StreamInit ==
    /\ s_adapter \in StreamingAdapters
    /\ s_script \in SeqsUpTo(LinesOf(s_adapter), MaxLines)
    /\ s_written = 0
    /\ s_read = 0
    /\ s_state = "start"
    /\ s_ended = FALSE
    /\ s_items = <<>>
    /\ s_child = "none"
    /\ s_kill_sent = FALSE
    /\ s_abort_sent = FALSE
    /\ s_drain = "none"

\* complete_stream: cmd.spawn() failed (claude_code.rs:295-297)
StreamSpawnFails ==
    /\ s_state = "start"
    /\ s_state' = "failed"
    /\ UNCHANGED <<s_adapter, s_script, s_written, s_read, s_ended, s_items,
                   s_child, s_kill_sent, s_abort_sent, s_drain>>
    /\ UNCHANGED notStreamVars

\* complete_stream: spawn the child, start the stderr drain task and hand
\* both to GuardedStream::new (claude_code.rs:295-365, stream.rs:39-49)
StreamSpawn ==
    /\ s_state = "start"
    /\ s_state' = "open"
    /\ s_child' = "running"
    /\ s_drain' = "running"
    /\ UNCHANGED <<s_adapter, s_script, s_written, s_read, s_ended, s_items,
                   s_kill_sent, s_abort_sent>>
    /\ UNCHANGED notStreamVars

\* the child writes its next line on stdout
StreamChildWrite ==
    /\ s_child = "running"
    /\ s_state = "open"
    /\ s_written < Len(s_script)
    /\ s_written' = s_written + 1
    /\ UNCHANGED <<s_adapter, s_script, s_read, s_state, s_ended, s_items,
                   s_child, s_kill_sent, s_abort_sent, s_drain>>
    /\ UNCHANGED notStreamVars

\* the child exits by itself after its last line; nobody has waited for it
StreamChildExit ==
    /\ s_child = "running"
    /\ s_written = Len(s_script)
    /\ s_child' = "zombie"
    /\ UNCHANGED <<s_adapter, s_script, s_written, s_read, s_state, s_ended,
                   s_items, s_kill_sent, s_abort_sent, s_drain>>
    /\ UNCHANGED notStreamVars

\* the stderr drain task returns by itself: end of file, or cap reached
\* (process.rs:54-72 with MAX_STREAMING_STDERR_BYTES)
StderrDrainEnds ==
    /\ s_drain = "running"
    /\ s_drain' = "done"
    /\ UNCHANGED <<s_adapter, s_script, s_written, s_read, s_state, s_ended,
                   s_items, s_child, s_kill_sent, s_abort_sent>>
    /\ UNCHANGED notStreamVars

\* stream.rs:55-57 poll_next: the inner stream maps the next stdout line
PollLine ==
    /\ s_state = "open"
    /\ ~s_ended
    /\ s_read < s_written
    /\ s_read' = s_read + 1
    /\ s_items' = Append(s_items, ItemOf(s_adapter, s_script[s_read + 1]))
    /\ UNCHANGED <<s_adapter, s_script, s_written, s_state, s_ended, s_child,
                   s_kill_sent, s_abort_sent, s_drain>>
    /\ UNCHANGED notStreamVars

\* poll_next: reading stdout failed (claude_code.rs:312-313)
PollReadError ==
    /\ s_state = "open"
    /\ ~s_ended
    /\ Len(s_items) < MaxLines + 1
    /\ s_items' = Append(s_items, ErrorItem("Internal"))
    /\ UNCHANGED <<s_adapter, s_script, s_written, s_read, s_state, s_ended,
                   s_child, s_kill_sent, s_abort_sent, s_drain>>
    /\ UNCHANGED notStreamVars

\* poll_next: stdout reached end of file, the inner stream returns None
PollEnd ==
    /\ s_state = "open"
    /\ ~s_ended
    /\ s_read = s_written
    /\ s_child # "running"
    /\ s_ended' = TRUE
    /\ UNCHANGED <<s_adapter, s_script, s_written, s_read, s_state, s_items,
                   s_child, s_kill_sent, s_abort_sent, s_drain>>
    /\ UNCHANGED notStreamVars

\* a drop that cleans up only when the stream was consumed to its end
StreamDropOnHappyPathOnly ==
    /\ s_state = "open"
    /\ s_state' = "dropped"
    /\ s_kill_sent' = s_ended
    /\ s_abort_sent' = s_ended
    /\ s_drain' = IF s_ended /\ s_drain = "running" THEN "aborted" ELSE s_drain
    /\ s_child' = IF s_child = "zombie" THEN "reaped" ELSE s_child
    /\ UNCHANGED <<s_adapter, s_script, s_written, s_read, s_ended, s_items>>
    /\ UNCHANGED notStreamVars

\* stream.rs:60-69 Drop: start_kill() on the child, abort() on the stderr
\* task. start_kill only sends the signal; the Child handle is then dropped
\* without wait(): the runtime collects a child that had already exited,
\* and a child that is still running is left to the runtime's orphan reaper
\* (it may also die and be collected before the handle is gone).
StreamDrop ==
    /\ s_state = "open"
    /\ s_state' = "dropped"
    /\ s_kill_sent' = TRUE
    /\ s_abort_sent' = TRUE
    /\ s_drain' = IF s_drain = "running" THEN "aborted" ELSE s_drain
    /\ s_child' \in (IF s_child = "running" THEN {"running", "reaped"}
                     ELSE {"reaped"})
    /\ UNCHANGED <<s_adapter, s_script, s_written, s_read, s_ended, s_items>>
    /\ UNCHANGED notStreamVars

\* after the drop the kill signal takes effect: the child terminates
StreamChildDies ==
    /\ s_state = "dropped"
    /\ s_kill_sent
    /\ s_child = "running"
    /\ s_child' = "zombie"
    /\ UNCHANGED <<s_adapter, s_script, s_written, s_read, s_state, s_ended,
                   s_items, s_kill_sent, s_abort_sent, s_drain>>
    /\ UNCHANGED notStreamVars

\* the runtime's orphan reaper collects the terminated child (best effort)
StreamOrphanReaped ==
    /\ s_state = "dropped"
    /\ s_child = "zombie"
    /\ s_child' = "reaped"
    /\ UNCHANGED <<s_adapter, s_script, s_written, s_read, s_state, s_ended,
                   s_items, s_kill_sent, s_abort_sent, s_drain>>
    /\ UNCHANGED notStreamVars

StreamNext ==
    \/ StreamSpawnFails
    \/ StreamSpawn
    \/ StreamChildWrite
    \/ StreamChildExit
    \/ StderrDrainEnds
    \/ PollLine
    \/ PollReadError
    \/ PollEnd
    \/ StreamDrop
    \/ StreamChildDies
    \/ StreamOrphanReaped

\* ========================================================================
\* Adapter registry and multiplex engine
\* ========================================================================
\* most providers in one multiplex call
MaxProviders == 2

\* config.rs:18-27 CliRunnerType
Kinds == {"ClaudeCode", "CursorAgent", "OpenCode", "Copilot"}

\* config.rs:53-62 Display for CliRunnerType
KindToString(k) ==
    IF k = "ClaudeCode" THEN "claude_code"
    ELSE IF k = "CursorAgent" THEN "cursor_agent"
    ELSE IF k = "OpenCode" THEN "opencode"
    ELSE "copilot"

\* the model name each adapter reports in its ChatResponse
\* (claude_code.rs:190, copilot.rs:191, cursor_agent.rs:159, opencode.rs:153)
ReportedModel(k) ==
    IF k = "ClaudeCode" THEN "claude-code"
    ELSE IF k = "CursorAgent" THEN "cursor-agent"
    ELSE IF k = "OpenCode" THEN "opencode"
    ELSE "copilot"

\* the error kinds a non-streaming completion fails with
CompleteErrors == {"ExternalService", "Internal"}

\* multiplex.rs:26-37 ProviderResponse; duration_ms is "measured" for a
\* value taken from the clock and "zero" for the literal 0
ProviderResponse(p, c, m, e, d) ==
    [provider |-> p, content |-> c, model |-> m, error |-> e, duration_ms |-> d]

NoResponse == ProviderResponse(None, None, None, None, "zero")

Tasks == 1..Len(providers)

Terminal == {"Ok", "Err", "Crashed"}

MuxIdle ==
    /\ providers = <<>>
    /\ binary = [k \in Kinds |-> "missing"]
    /\ runners = [k \in Kinds |-> 0]
    /\ built = [k \in Kinds |-> 0]
    /\ lock = 0
    /\ spawned = 0
    /\ t_pc = <<>>
    /\ t_first = <<>>
    /\ t_got = <<>>
    /\ t_out = <<>>
    /\ out_of_order = FALSE
    /\ responses = <<>>
    /\ mux_pc = "idle"
    /\ mux_result = [kind |-> "none", summary |-> <<0, 0, 0>>]

\* state.rs:33-38 ServerState::new: an empty cache; the provider list and
\* the binaries installed on the host when the call starts are inputs
MuxInit ==
    /\ providers \in UNION {[1..n -> Kinds] : n \in 1..MaxProviders}
    /\ binary \in [Kinds -> {"found", "missing"}]
    /\ \A k \in Kinds :
          (\A i \in 1..Len(providers) : providers[i] # k) => binary[k] = "missing"
    /\ runners = [k \in Kinds |-> 0]
    /\ built = [k \in Kinds |-> 0]
    /\ lock = 0
    /\ spawned = 0
    /\ t_pc = [i \in 1..Len(providers) |-> "Unspawned"]
    /\ t_first = [i \in 1..Len(providers) |-> FALSE]
    /\ t_got = [i \in 1..Len(providers) |-> 0]
    /\ t_out = [i \in 1..Len(providers) |-> NoResponse]
    /\ out_of_order = FALSE
    /\ responses = <<>>
    /\ mux_pc = "spawning"
    /\ mux_result = [kind |-> "none", summary |-> <<0, 0, 0>>]

\* discovery.rs:69-83 resolve_binary as create_runner calls it
\* (factory.rs:19-23): a binary that is not found is an Internal error
ResolveBinary(k) == IF binary[k] = "found" THEN "Ok" ELSE "Internal"

\* a task reaching a final state before a task of lower index has
FinishesOutOfOrder(i) == \E j \in 1..(i - 1) : t_pc[j] \notin Terminal

\* multiplex.rs:65-72: execute spawns the next task
SpawnTask ==
    /\ mux_pc = "spawning"
    /\ spawned < Len(providers)
    /\ spawned' = spawned + 1
    /\ t_pc' = [t_pc EXCEPT ![spawned + 1] = "Init"]
    /\ mux_pc' = IF spawned + 1 = Len(providers) THEN "joining" ELSE "spawning"
    /\ UNCHANGED <<providers, binary, runners, built, lock, t_first, t_got,
                   t_out, out_of_order, responses, mux_result>>
    /\ UNCHANGED notMuxVars

\* multiplex.rs:101-103: the task starts and calls get_runner, which waits
\* for the registry mutex (state.rs:52)
TaskStart(i) ==
    /\ t_pc[i] = "Init"
    /\ t_pc' = [t_pc EXCEPT ![i] = "FetchAdapter"]
    /\ t_first' = [t_first EXCEPT ![i] = (runners[providers[i]] = 0)]
    /\ UNCHANGED <<providers, binary, runners, built, lock, spawned, t_got,
                   t_out, out_of_order, responses, mux_pc, mux_result>>
    /\ UNCHANGED notMuxVars

\* a registry whose lock excludes nobody
LockWithoutExclusion(i) ==
    /\ t_pc[i] = "FetchAdapter"
    /\ lock' = i
    /\ t_pc' = [t_pc EXCEPT ![i] = "Locked"]
    /\ UNCHANGED <<providers, binary, runners, built, spawned, t_first, t_got,
                   t_out, out_of_order, responses, mux_pc, mux_result>>
    /\ UNCHANGED notMuxVars

\* state.rs:52: self.runners.lock().await succeeds once the mutex is free
Lock(i) ==
    /\ t_pc[i] = "FetchAdapter"
    /\ lock = 0
    /\ lock' = i
    /\ t_pc' = [t_pc EXCEPT ![i] = "Locked"]
    /\ UNCHANGED <<providers, binary, runners, built, spawned, t_first, t_got,
                   t_out, out_of_order, responses, mux_pc, mux_result>>
    /\ UNCHANGED notMuxVars

\* state.rs:54-56: a cache hit returns the cached Arc (the guard is dropped);
\* on a miss the task goes on to construct the adapter, still under the lock
Lookup(i) ==
    /\ t_pc[i] = "Locked"
    /\ IF runners[providers[i]] # 0
       THEN /\ t_got' = [t_got EXCEPT ![i] = runners[providers[i]]]
            /\ t_pc' = [t_pc EXCEPT ![i] = "Dispatched"]
            /\ lock' = IF lock = i THEN 0 ELSE lock
       ELSE /\ t_pc' = [t_pc EXCEPT ![i] = "Creating"]
            /\ UNCHANGED <<t_got, lock>>
    /\ UNCHANGED <<providers, binary, runners, built, spawned, t_first, t_out,
                   out_of_order, responses, mux_pc, mux_result>>
    /\ UNCHANGED notMuxVars

\* discovery.rs:69-83 looks the binary up on PATH (or in the env override)
\* at every call: a binary installed while the server runs is found by the
\* next create_runner
InstallBinary(k) ==
    /\ \E i \in Tasks : providers[i] = k
    /\ binary[k] = "missing"
    /\ binary' = [binary EXCEPT ![k] = "found"]
    /\ UNCHANGED <<providers, runners, built, lock, spawned, t_pc, t_first,
                   t_got, t_out, out_of_order, responses, mux_pc, mux_result>>
    /\ UNCHANGED notMuxVars

\* a get_runner that remembers a failed construction: the failure leaves an
\* entry behind that later calls return
CreateCachingFailure(i) ==
    /\ t_pc[i] = "Creating"
    /\ lock' = IF lock = i THEN 0 ELSE lock
    /\ LET k == providers[i]
       IN IF ResolveBinary(k) = "Ok"
          THEN /\ built' = [built EXCEPT ![k] = @ + 1]
               /\ runners' = [runners EXCEPT ![k] = built[k] + 1]
               /\ t_got' = [t_got EXCEPT ![i] = built[k] + 1]
               /\ t_pc' = [t_pc EXCEPT ![i] = "Dispatched"]
               /\ UNCHANGED <<t_out, out_of_order>>
          ELSE /\ t_pc' = [t_pc EXCEPT ![i] = "Err"]
               /\ runners' = [runners EXCEPT ![k] = built[k] + 1]
               /\ t_out' = [t_out EXCEPT ![i] =
                      ProviderResponse(KindToString(k), None, None,
                                       ResolveBinary(k), "measured")]
               /\ out_of_order' = (out_of_order \/ FinishesOutOfOrder(i))
               /\ UNCHANGED <<built, t_got>>
    /\ UNCHANGED <<providers, binary, spawned, t_first, responses, mux_pc,
                   mux_result>>
    /\ UNCHANGED notMuxVars

\* state.rs:58-62 with factory.rs:18-34: create_runner; on success the new
\* adapter is inserted and returned, on failure `?` returns the error and
\* nothing is inserted (multiplex.rs:105-116 turns it into an outcome)
Create(i) ==
    /\ t_pc[i] = "Creating"
    /\ lock' = IF lock = i THEN 0 ELSE lock
    /\ LET k == providers[i]
       IN IF ResolveBinary(k) = "Ok"
          THEN /\ built' = [built EXCEPT ![k] = @ + 1]
               /\ runners' = [runners EXCEPT ![k] = built[k] + 1]
               /\ t_got' = [t_got EXCEPT ![i] = built[k] + 1]
               /\ t_pc' = [t_pc EXCEPT ![i] = "Dispatched"]
               /\ UNCHANGED <<t_out, out_of_order>>
          ELSE /\ t_pc' = [t_pc EXCEPT ![i] = "Err"]
               /\ t_out' = [t_out EXCEPT ![i] =
                      ProviderResponse(KindToString(k), None, None,
                                       ResolveBinary(k), "measured")]
               /\ out_of_order' = (out_of_order \/ FinishesOutOfOrder(i))
               /\ UNCHANGED <<built, runners, t_got>>
    /\ UNCHANGED <<providers, binary, spawned, t_first, responses, mux_pc,
                   mux_result>>
    /\ UNCHANGED notMuxVars

\* multiplex.rs:118-128: runner.complete(&request) returned Ok(response)
CompleteOk(i, text) ==
    /\ t_pc[i] = "Dispatched"
    /\ t_pc' = [t_pc EXCEPT ![i] = "Ok"]
    /\ t_out' = [t_out EXCEPT ![i] =
           ProviderResponse(KindToString(providers[i]), text,
                            ReportedModel(providers[i]), None, "measured")]
    /\ out_of_order' = (out_of_order \/ FinishesOutOfOrder(i))
    /\ UNCHANGED <<providers, binary, runners, built, lock, spawned, t_first,
                   t_got, responses, mux_pc, mux_result>>
    /\ UNCHANGED notMuxVars

\* multiplex.rs:129-135: runner.complete(&request) returned Err(e)
CompleteErr(i, e) ==
    /\ t_pc[i] = "Dispatched"
    /\ t_pc' = [t_pc EXCEPT ![i] = "Err"]
    /\ t_out' = [t_out EXCEPT ![i] =
           ProviderResponse(KindToString(providers[i]), None, None, e,
                            "measured")]
    /\ out_of_order' = (out_of_order \/ FinishesOutOfOrder(i))
    /\ UNCHANGED <<providers, binary, runners, built, lock, spawned, t_first,
                   t_got, responses, mux_pc, mux_result>>
    /\ UNCHANGED notMuxVars

\* the task panics while constructing the adapter or inside the adapter's
\* complete; unwinding drops the mutex guard if the task holds it
TaskCrash(i) ==
    /\ t_pc[i] \in {"Creating", "Dispatched"}
    /\ t_pc' = [t_pc EXCEPT ![i] = "Crashed"]
    /\ lock' = IF lock = i THEN 0 ELSE lock
    /\ out_of_order' = (out_of_order \/ FinishesOutOfOrder(i))
    /\ UNCHANGED <<providers, binary, runners, built, spawned, t_first, t_got,
                   t_out, responses, mux_pc, mux_result>>
    /\ UNCHANGED notMuxVars

\* a collector that records a crashed task without an error message
JoinOutcomeWithoutError(i) ==
    IF t_pc[i] = "Crashed"
    THEN ProviderResponse("unknown", None, None, None, "zero")
    ELSE t_out[i]

\* multiplex.rs:76-85: what awaiting the handle of task i pushes
JoinOutcome(i) ==
    IF t_pc[i] = "Crashed"
    THEN ProviderResponse("unknown", None, None, "Task join error", "zero")
    ELSE t_out[i]

\* a collector that takes the tasks as they complete
JoinInCompletionOrder(i) ==
    /\ mux_pc = "joining"
    /\ Len(responses) < Len(providers)
    /\ t_pc[i] \in Terminal
    /\ \A j \in 1..Len(responses) : responses[j] # JoinOutcome(i)
    /\ responses' = Append(responses, JoinOutcome(i))
    /\ UNCHANGED <<providers, binary, runners, built, lock, spawned, t_pc,
                   t_first, t_got, t_out, out_of_order, mux_pc, mux_result>>
    /\ UNCHANGED notMuxVars

\* a collector that gives up the whole call when a task crashed
JoinPropagatingCrash(i) ==
    /\ mux_pc = "joining"
    /\ i = Len(responses) + 1
    /\ t_pc[i] \in Terminal
    /\ IF t_pc[i] = "Crashed"
       THEN /\ mux_pc' = "returned"
            /\ mux_result' = [kind |-> "Internal", summary |-> <<0, 0, 0>>]
            /\ UNCHANGED responses
       ELSE /\ responses' = Append(responses, JoinOutcome(i))
            /\ UNCHANGED <<mux_pc, mux_result>>
    /\ UNCHANGED <<providers, binary, runners, built, lock, spawned, t_pc,
                   t_first, t_got, t_out, out_of_order>>
    /\ UNCHANGED notMuxVars

\* multiplex.rs:74-86: `for handle in handles { handle.await }`: execute
\* awaits the handles in spawn order and pushes one response per handle
Join(i) ==
    /\ mux_pc = "joining"
    /\ i = Len(responses) + 1
    /\ t_pc[i] \in Terminal
    /\ responses' = Append(responses, JoinOutcome(i))
    /\ UNCHANGED <<providers, binary, runners, built, lock, spawned, t_pc,
                   t_first, t_got, t_out, out_of_order, mux_pc, mux_result>>
    /\ UNCHANGED notMuxVars

\* multiplex.rs:140-145 build_summary: <<succeeded, failed, total>>
build_summary(rs) ==
    LET total == Len(rs)
        succeeded == Cardinality({j \in 1..Len(rs) : rs[j].content # None})
    IN  <<succeeded, total - succeeded, total>>

\* an execute that returns as soon as the first outcome is in
ReturnAfterFirstOutcome ==
    /\ mux_pc = "joining"
    /\ Len(responses) >= 1
    /\ mux_pc' = "returned"
    /\ mux_result' = [kind |-> "Ok", summary |-> build_summary(responses)]
    /\ UNCHANGED <<providers, binary, runners, built, lock, spawned, t_pc,
                   t_first, t_got, t_out, out_of_order, responses>>
    /\ UNCHANGED notMuxVars

\* completions.rs:159-167: the handler awaits execute; when the client goes
\* away the handler future is dropped at `handle.await` (multiplex.rs:76) and
\* the JoinHandles with it. Dropping a JoinHandle detaches its task: nothing
\* aborts the tasks, which run on
CallerDrops ==
    /\ mux_pc = "joining"
    /\ mux_pc' = "dropped"
    /\ UNCHANGED <<providers, binary, runners, built, lock, spawned, t_pc,
                   t_first, t_got, t_out, out_of_order, responses, mux_result>>
    /\ UNCHANGED notMuxVars

\* multiplex.rs:88-89: all handles awaited: Ok(MultiplexResult)
Return ==
    /\ mux_pc = "joining"
    /\ Len(responses) = Len(providers)
    /\ mux_pc' = "returned"
    /\ mux_result' = [kind |-> "Ok", summary |-> build_summary(responses)]
    /\ UNCHANGED <<providers, binary, runners, built, lock, spawned, t_pc,
                   t_first, t_got, t_out, out_of_order, responses>>
    /\ UNCHANGED notMuxVars

MuxNext ==
    \/ SpawnTask
    \/ \E i \in Tasks : TaskStart(i)
    \/ \E i \in Tasks : Lock(i)
    \/ \E i \in Tasks : Lookup(i)
    \/ \E i \in Tasks : Create(i)
    \/ \E i \in Tasks, text \in Texts : CompleteOk(i, text)
    \/ \E i \in Tasks, e \in CompleteErrors : CompleteErr(i, e)
    \/ \E i \in Tasks : TaskCrash(i)
    \/ \E i \in Tasks : Join(i)
    \/ Return
    \/ \E k \in Kinds : InstallBinary(k)
    \/ CallerDrops

\* ========================================================================
\* CLI output documents and the non-streaming completion
\* ========================================================================
\* claude_code.rs:35 (50 MiB; the same value in cursor_agent.rs:35,
\* opencode.rs:28 and copilot.rs:30), scaled to the documents below
MAX_OUTPUT_BYTES == 5

\* most padding tokens in a document
MaxPad == 2

\* A document is what the child wrote on stdout, as a sequence of tokens:
\*   "{" "}"  the braces of a JSON object
\*   "e"      the member "is_error": true
\*   "r"      the member "result": <text>
\*   "s"      the member "session_id": <id>
\*   "w"      white space or a member the response structure does not have
\*   "t"      a known member with a value of the wrong type ("result": 42)
\*   "j"      a JSON value that is not an object ([] or "text")
\*   "x"      text that is not JSON
\*   "u"      a byte sequence that is not UTF-8
Object(F, pad) ==
    <<"{">> \o SelectSeq(<<"e", "r", "s">>, LAMBDA f : f \in F)
            \o [i \in 1..pad |-> "w"] \o <<"}">>

Docs ==
    {Object(F, pad) : F \in SUBSET {"e", "r", "s"}, pad \in 0..MaxPad}
    \cup {<<>>, <<"x">>, <<"u">>, <<"j">>, <<"{", "r">>, <<"{", "t", "}">>,
          <<"{", "u", "}">>}

Has(d, t) == \E i \in 1..Len(d) : d[i] = t

\* process.rs:33-51 read_stdout_capped: the first max tokens of the document
Captured(doc, max) == SubSeq(doc, 1, Min(Len(doc), max))

\* str::from_utf8 (claude_code.rs:163-165)
Utf8Valid(d) == ~Has(d, "u")

IsObject(d) ==
    /\ Len(d) >= 2
    /\ d[1] = "{"
    /\ d[Len(d)] = "}"
    /\ \A i \in 2..(Len(d) - 1) : d[i] \in {"e", "r", "s", "w", "t"}

\* the document is a JSON text
ValidJson(d) == Utf8Valid(d) /\ (d = <<"j">> \/ IsObject(d))

\* serde_json::from_str::<ClaudeResponse> (claude_code.rs:50-58, 167-169): an
\* object whose known members have the declared types; every member is
\* optional and unknown members are ignored
Deserializes(d) == IsObject(d) /\ ~Has(d, "t")

ResultText == "a"

RunnerError(k, msg) == [kind |-> k, message |-> msg]

\* a parse_response that takes the response for a success whenever it
\* deserializes, without looking at is_error
parse_response_ignoring_is_error(raw, sid) ==
    IF ~Utf8Valid(raw) THEN RunnerError("Internal", "not valid UTF-8")
    ELSE IF ~Deserializes(raw) THEN RunnerError("Internal", "failed to parse")
    ELSE [kind |-> "Ok",
          content |-> IF Has(raw, "r") THEN ResultText ELSE "",
          session_id |-> IF Has(raw, "s") THEN sid ELSE None]

\* claude_code.rs:162-196 parse_response (cursor_agent.rs:131-165 and
\* opencode.rs:109-142 are the same); sid is the value of the session_id
\* member when the document has one
parse_response(raw, sid) ==
    IF ~Utf8Valid(raw) THEN RunnerError("Internal", "not valid UTF-8")
    ELSE IF ~Deserializes(raw) THEN RunnerError("Internal", "failed to parse")
    ELSE IF Has(raw, "e")
    THEN RunnerError("ExternalService",
                     IF Has(raw, "r") THEN ResultText ELSE "Unknown error")
    ELSE [kind |-> "Ok",
          content |-> IF Has(raw, "r") THEN ResultText ELSE "",
          session_id |-> IF Has(raw, "s") THEN sid ELSE None]

\* copilot.rs:181-195 parse_response: the text, no session id
copilot_parse_response(raw) ==
    IF ~Utf8Valid(raw) THEN RunnerError("Internal", "not valid UTF-8")
    ELSE [kind |-> "Ok", content |-> IF raw = <<>> THEN "" ELSE ResultText,
          session_id |-> None]

\* how run_cli_command ended (process.rs:86-143)
RunOutcomes == {"exited", "spawn_failed", "wait_failed", "timed_out"}

ExitCodes == {0, 1}

\* process.rs:102-104, 130-132, 134-141: the error run_cli_command returns
RunErrorKind(run) == IF run = "timed_out" THEN "ExternalService" ELSE "Internal"

\* what follows run_cli_command in complete (claude_code.rs:247-275,
\* cursor_agent.rs:210-241, opencode.rs:195-213, copilot.rs:236-255): `?` on
\* the run, the exit code test, then parse_response
CompleteResult(k, run, exit, raw, sid) ==
    IF run # "exited" THEN RunnerError(RunErrorKind(run), "run failed")
    ELSE IF exit # 0 THEN RunnerError("ExternalService", "exited with code")
    ELSE IF k = "Copilot" THEN copilot_parse_response(raw)
    ELSE parse_response(raw, sid)

\* ========================================================================
\* Adapter sessions
\* ========================================================================
\* most completions in flight on one adapter
MaxCalls == 2

ModelNames == {"m1", "m2"}

SessionIds == {"s1", "s2"}

\* copilot.rs has no session map; the other three adapters have one
\* (claude_code.rs:76, cursor_agent.rs:72, opencode.rs:72)
HasSessions(k) == k # "Copilot"

\* opencode.rs:216-220: complete_stream returns an error before any command
\* is built
SupportsStreaming(k) == k # "OpenCode"

\* the three ways a completion reaches the adapter: handle_single without
\* and with stream (completions.rs:85-124), dispatch_single (multiplex.rs)
Modes == {"complete", "stream", "multiplex"}

\* types.rs ChatRequest::new: no model, not streaming
NewChatRequest == [model |-> None, stream |-> FALSE]

\* completions.rs:76-83: handle_single puts the resolved model in the request
SingleRequest(entry, stream) ==
    [NewChatRequest EXCEPT !.model = entry, !.stream = stream]

\* a dispatch_single that forwards the model part of the address entry
MultiplexRequestWithModel(entry) == [NewChatRequest EXCEPT !.model = entry]

\* multiplex.rs:118-120: dispatch_single gets the provider kind only
\* (completions.rs:152) and sets temperature and max_tokens, never the model
MultiplexRequest(entry) == NewChatRequest

\* the value of the --model argument: config.model or the adapter's default
\* (claude_code.rs:124-129, RunnerConfig::new in factory.rs:24 sets none);
\* the request's model is not consulted
ModelArg(k, req) == "default"

\* a lookup that falls back to the session of the first model when the
\* request names none
ResumeArgWithFallback(k, sessions, req) ==
    IF ~HasSessions(k) THEN None
    ELSE IF req.model = None THEN sessions["m1"]
    ELSE sessions[req.model]

\* claude_code.rs:228-233, 285-290 (cursor_agent.rs:203-208, 249-254,
\* opencode.rs:188-193): the session id passed with the resume flag, None
\* when the flag is not appended
ResumeArg(k, sessions, req) ==
    IF HasSessions(k) /\ req.model # None THEN sessions[req.model] ELSE None

\* a store that keeps the first id it was given for a model
StoreSessionKeepFirst(sessions, req, sid) ==
    IF sid # None /\ req.model # None /\ sessions[req.model] = None
    THEN [sessions EXCEPT ![req.model] = sid]
    ELSE sessions

\* claude_code.rs:269-273 with set_session (94-97): HashMap::insert under
\* the session mutex
StoreSession(sessions, req, sid) ==
    IF sid # None /\ req.model # None
    THEN [sessions EXCEPT ![req.model] = sid]
    ELSE sessions

IdleCall == [pc |-> "idle", mode |-> None, entry |-> None,
             request |-> NewChatRequest, model_arg |-> None, resume |-> None]

\* the adapter has just been constructed: HashMap::new() (claude_code.rs:91)
SessInit ==
    /\ a_kind \in Kinds
    /\ session_ids = [m \in ModelNames |-> None]
    /\ stored_last = [m \in ModelNames |-> None]
    /\ calls = [c \in 1..MaxCalls |-> IdleCall]

\* a handler builds the request and calls the adapter, which builds the
\* command, looking the session up under the session mutex
Dispatch(c, mode, entry) ==
    /\ calls[c].pc = "idle"
    /\ mode = "stream" => SupportsStreaming(a_kind)
    /\ LET req == IF mode = "multiplex" THEN MultiplexRequest(entry)
                  ELSE SingleRequest(entry, mode = "stream")
       IN  calls' = [calls EXCEPT ![c] =
               [pc |-> "running", mode |-> mode, entry |-> entry,
                request |-> req, model_arg |-> ModelArg(a_kind, req),
                resume |-> ResumeArg(a_kind, session_ids, req)]]
    /\ UNCHANGED <<a_kind, session_ids, stored_last>>
    /\ UNCHANGED notSessVars

\* every result complete can return for adapter kind k: CompleteResult over
\* everything the child can do
CompleteResults ==
    [k \in Kinds |->
        {CompleteResult(k, run, exit, Captured(doc, MAX_OUTPUT_BYTES), sid) :
            run \in RunOutcomes, exit \in ExitCodes, doc \in Docs,
            sid \in SessionIds}]

AllCompleteResults == UNION {CompleteResults[k] : k \in Kinds}

\* a complete that also records a session when the completion failed
CompleteReturnsStoringOnFailure(c, res) ==
    /\ calls[c].pc = "running"
    /\ calls[c].mode \in {"complete", "multiplex"}
    /\ res \in CompleteResults[a_kind]
    /\ LET req == calls[c].request
       IN  IF res.kind = "Ok"
           THEN /\ session_ids' = StoreSession(session_ids, req, res.session_id)
                /\ stored_last' =
                      IF res.session_id # None /\ req.model # None
                      THEN [stored_last EXCEPT ![req.model] = res.session_id]
                      ELSE stored_last
           ELSE /\ session_ids' = StoreSession(session_ids, req, "s1")
                /\ UNCHANGED stored_last
    /\ calls' = [calls EXCEPT ![c] = IdleCall]
    /\ UNCHANGED a_kind
    /\ UNCHANGED notSessVars

\* the child of a non-streaming completion is done and complete returns
\* res; on success the session id of the response is stored
CompleteReturns(c, res) ==
    /\ calls[c].pc = "running"
    /\ calls[c].mode \in {"complete", "multiplex"}
    /\ res \in CompleteResults[a_kind]
    /\ LET req == calls[c].request
       IN  IF res.kind = "Ok"
           THEN /\ session_ids' = StoreSession(session_ids, req, res.session_id)
                /\ stored_last' =
                      IF res.session_id # None /\ req.model # None
                      THEN [stored_last EXCEPT ![req.model] = res.session_id]
                      ELSE stored_last
           ELSE UNCHANGED <<session_ids, stored_last>>
    /\ calls' = [calls EXCEPT ![c] = IdleCall]
    /\ UNCHANGED a_kind
    /\ UNCHANGED notSessVars

\* complete_stream returned (the stream, or the spawn error): nothing reads
\* the session id of a stream (claude_code.rs:295-365)
StreamReturns(c) ==
    /\ calls[c].pc = "running"
    /\ calls[c].mode = "stream"
    /\ calls' = [calls EXCEPT ![c] = IdleCall]
    /\ UNCHANGED <<a_kind, session_ids, stored_last>>
    /\ UNCHANGED notSessVars

SessNext ==
    \/ \E c \in 1..MaxCalls, mode \in Modes, entry \in ModelNames \cup {None} :
           Dispatch(c, mode, entry)
    \/ \E c \in 1..MaxCalls, res \in AllCompleteResults :
           CompleteReturns(c, res)
    \/ \E c \in 1..MaxCalls : StreamReturns(c)

\* ========================================================================
\* One Claude Code non-streaming completion, step by step
\* ========================================================================
NoOutcome == [kind |-> "none"]

\* everything the child can do is an input
ClaudeInit ==
    /\ cc_pc = "start"
    /\ cc_child \in [run : RunOutcomes, exit_code : ExitCodes, doc : Docs,
                     sid : SessionIds]
    /\ cc_raw = <<>>
    /\ cc_parsed = FALSE
    /\ cc_result = NoOutcome

\* claude_code.rs:247: run_cli_command(..).await? returned an error
ClaudeRunFails ==
    /\ cc_pc = "start"
    /\ cc_child.run # "exited"
    /\ cc_pc' = "returned"
    /\ cc_result' = RunnerError(RunErrorKind(cc_child.run), "run failed")
    /\ UNCHANGED <<cc_child, cc_raw, cc_parsed>>
    /\ UNCHANGED notClaudeVars

\* claude_code.rs:247: run_cli_command returned the output, stdout capped
\* at MAX_OUTPUT_BYTES
ClaudeRunReturns ==
    /\ cc_pc = "start"
    /\ cc_child.run = "exited"
    /\ cc_pc' = "ran"
    /\ cc_raw' = Captured(cc_child.doc, MAX_OUTPUT_BYTES)
    /\ UNCHANGED <<cc_child, cc_parsed, cc_result>>
    /\ UNCHANGED notClaudeVars

\* claude_code.rs:249-265: a non-zero exit code is an ExternalService error
ClaudeExitNonZero ==
    /\ cc_pc = "ran"
    /\ cc_child.exit_code # 0
    /\ cc_pc' = "returned"
    /\ cc_result' = RunnerError("ExternalService", "exited with code")
    /\ UNCHANGED <<cc_child, cc_raw, cc_parsed>>
    /\ UNCHANGED notClaudeVars

\* claude_code.rs:267-275: parse_response(&output.stdout)?
ClaudeParse ==
    /\ cc_pc = "ran"
    /\ cc_child.exit_code = 0
    /\ cc_pc' = "returned"
    /\ cc_parsed' = TRUE
    /\ cc_result' = parse_response(cc_raw, cc_child.sid)
    /\ UNCHANGED <<cc_child, cc_raw>>
    /\ UNCHANGED notClaudeVars

ClaudeNext ==
    \/ ClaudeRunFails
    \/ ClaudeRunReturns
    \/ ClaudeExitNonZero
    \/ ClaudeParse

\* ========================================================================
\* Address resolution
\* ========================================================================
\* most tokens in a model address
MaxAddrLen == 3

\* A model address is a sequence of tokens: the colon, or a word without a
\* colon. The words cover provider names and aliases in several spellings
\* and a word that names no provider.
Words == {"claude", "COPILOT", "Cursor-Agent", "open_code", "gpt-4o"}

Tokens == Words \cup {":"}

Addresses == UNION {[1..n -> Tokens] : n \in 0..MaxAddrLen}

\* str::to_lowercase on a word
ToLower(w) ==
    IF w = "COPILOT" THEN "copilot"
    ELSE IF w = "Cursor-Agent" THEN "cursor-agent"
    ELSE w

\* the names and aliases of the provider kinds, in lower case
ClaudeCodeNames == {"claude_code", "claude", "claudecode"}
CopilotNames == {"copilot"}
CursorAgentNames == {"cursor_agent", "cursoragent", "cursor-agent"}
OpenCodeNames == {"opencode", "open_code"}

\* parse_runner_type: the kind a text names, None when it names none; a text
\* of several tokens, or with a colon, names none
parse_runner_type(txt) ==
    IF Len(txt) # 1 THEN None
    ELSE LET w == ToLower(txt[1])
         IN  IF w \in ClaudeCodeNames THEN "ClaudeCode"
             ELSE IF w \in CopilotNames THEN "Copilot"
             ELSE IF w \in CursorAgentNames THEN "CursorAgent"
             ELSE IF w \in OpenCodeNames THEN "OpenCode"
             ELSE None

\* Option<String>
NoModel == [some |-> FALSE, val |-> <<>>]
SomeModel(txt) == [some |-> TRUE, val |-> txt]

\* str::split_once(':'): the position of the first colon, 0 when none
FirstColon(txt) ==
    IF \E i \in 1..Len(txt) : txt[i] = ":"
    THEN CHOOSE i \in 1..Len(txt) :
             txt[i] = ":" /\ \A j \in 1..(i - 1) : txt[j] # ":"
    ELSE 0

ResolvedProvider(k, m) == [called |-> TRUE, runner_type |-> k, model |-> m]

Unresolved == [called |-> FALSE, runner_type |-> None, model |-> NoModel]

\* a resolver that keeps only the part after the colon when the prefix
\* names no provider
resolve_model_dropping_prefix(txt, default) ==
    LET i == FirstColon(txt)
    IN  IF i # 0
        THEN LET prefix == SubSeq(txt, 1, i - 1)
                 model == SubSeq(txt, i + 1, Len(txt))
             IN  IF parse_runner_type(prefix) # None
                 THEN ResolvedProvider(parse_runner_type(prefix),
                          IF model = <<>> THEN NoModel ELSE SomeModel(model))
                 ELSE ResolvedProvider(default, SomeModel(model))
        ELSE IF parse_runner_type(txt) # None
        THEN ResolvedProvider(parse_runner_type(txt), NoModel)
        ELSE ResolvedProvider(default, SomeModel(txt))

\* provider_resolver.rs:27-57 resolve_model
resolve_model(txt, default) ==
    LET i == FirstColon(txt)
    IN  IF i # 0
        THEN LET prefix == SubSeq(txt, 1, i - 1)
                 model == SubSeq(txt, i + 1, Len(txt))
             IN  IF parse_runner_type(prefix) # None
                 THEN ResolvedProvider(parse_runner_type(prefix),
                          IF model = <<>> THEN NoModel ELSE SomeModel(model))
                 ELSE ResolvedProvider(default, SomeModel(txt))
        ELSE IF parse_runner_type(txt) # None
        THEN ResolvedProvider(parse_runner_type(txt), NoModel)
        ELSE ResolvedProvider(default, SomeModel(txt))

\* a request arrives with some model address at a server with some default
\* provider (state.rs:33-38)
ResolveInit ==
    /\ model_str \in Addresses
    /\ default_provider \in Kinds
    /\ resolved = Unresolved
    /\ model_name = <<>>
    /\ resolved_again = Unresolved

\* completions.rs:69, 147-150: the handler resolves the address
Resolve ==
    /\ ~resolved.called
    /\ resolved' = resolve_model(model_str, default_provider)
    /\ UNCHANGED <<model_str, default_provider, model_name, resolved_again>>
    /\ UNCHANGED notResolveVars

\* a name that leaves the provider out
FormatModelOnly(k, m) == m

\* completions.rs:94, 102: format!("{}:{}", runner_type, model)
Format(k, m) == <<KindToString(k), ":">> \o m

\* completions.rs:94-102: the "<provider>:<model>" name of the resolved
\* provider and the resolved model (the model part is empty when the
\* address carried none)
NameResponse ==
    /\ resolved.called
    /\ model_name = <<>>
    /\ model_name' = Format(resolved.runner_type, resolved.model.val)
    /\ UNCHANGED <<model_str, default_provider, resolved, resolved_again>>
    /\ UNCHANGED notResolveVars

\* completions.rs:69: a client sends the name it was given as the address of
\* its next request, under whatever default the server has by then
ResolveAgain(default) ==
    /\ model_name # <<>>
    /\ ~resolved_again.called
    /\ resolved_again' = resolve_model(model_name, default)
    /\ UNCHANGED <<model_str, default_provider, resolved, model_name>>
    /\ UNCHANGED notResolveVars

ResolveNext ==
    \/ Resolve
    \/ NameResponse
    \/ \E default \in Kinds : ResolveAgain(default)

\* ========================================================================
\* REST front: authentication, validation, routing, error mapping
\* ========================================================================
\* longest model array of a request
MaxModels == 2

\* completions.rs:27
MAX_TEMPERATURE == 2

\* Option values
Absent == [some |-> FALSE, val |-> 0]
Some(v) == [some |-> TRUE, val |-> v]

\* the values of an environment variable: unset, or set to a text
Unset == [set |-> FALSE, val |-> <<>>]
SetTo(txt) == [set |-> TRUE, val |-> txt]

\* texts are sequences of characters
ApiKeys == {<<"k", "1">>, <<"k", "2">>}

KeyValues == {Unset, SetTo(<<>>)} \cup {SetTo(k) : k \in ApiKeys}

\* auth.rs:39 "Bearer "
BearerPrefix == <<"B", "e", "a", "r", "e", "r", " ">>

\* the Authorization header of a request
NoHeader == [present |-> FALSE, val |-> <<>>]
Header(txt) == [present |-> TRUE, val |-> txt]

AuthHeaders ==
    {NoHeader, Header(BearerPrefix), Header(<<"k", "1">>),
     Header(<<"b", "e", "a", "r", "e", "r", " ", "k", "1">>)}
    \cup {Header(BearerPrefix \o k) : k \in ApiKeys}

\* router.rs:26-33
Routes == {"completions", "models", "health"}

\* the addresses the requests carry
RestAddresses == {<<"claude">>, <<"COPILOT", ":", "gpt-4o">>}

\* openai_types.rs:36-43 ModelField
Single(a) == [array |-> FALSE, models |-> <<a>>]
Multiple(ms) == [array |-> TRUE, models |-> ms]

ModelFields ==
    {Single(a) : a \in RestAddresses}
    \cup {Multiple(ms) : ms \in SeqsUpTo(RestAddresses, MaxModels)}

\* openai_types.rs:18-33 ChatCompletionRequest; a message is its role
Bodies ==
    [parsed : {TRUE},
     model : ModelFields,
     messages : SeqsUpTo({"user"}, 1),
     stream : BOOLEAN,
     temperature : {Absent, Some(MAX_TEMPERATURE),
                    Some(MAX_TEMPERATURE + 1)},
     max_tokens : {Some(0), Some(1)}]

NoBody == [parsed |-> FALSE]

NoRequest == [route |-> "none"]

Request(route, header) == [route |-> route, auth |-> header, body |-> NoBody]

NoRestResponse == [status |-> 0]

Response(status, type) == [status |-> status, type |-> type]

\* completions.rs:226-229 error_response
error_response(status) == Response(status, "invalid_request_error")

\* completions.rs:211-224 runner_error_to_response
runner_error_to_response(kind) ==
    IF kind = "BinaryNotFound" THEN Response(503, "provider_not_available")
    ELSE IF kind = "AuthFailure" THEN Response(401, "authentication_error")
    ELSE IF kind = "Timeout" THEN Response(504, "timeout_error")
    ELSE IF kind = "ExternalService"
    THEN Response(502, "external_service_error")
    ELSE IF kind = "Config" THEN Response(400, "invalid_request_error")
    ELSE Response(500, "server_error")

\* a middleware that takes any Bearer token when a key is set
require_auth_any_bearer(key, header) ==
    IF ~(key.set /\ key.val # <<>>) THEN "next"
    ELSE IF ~header.present THEN "Missing Authorization header"
    ELSE IF IsPrefix(BearerPrefix, header.val) THEN "next"
    ELSE "Authorization header must use Bearer scheme"

\* auth.rs:24-47 require_auth: "next" when the request goes on to its
\* handler, the message of the 401 otherwise
require_auth(key, header) ==
    IF ~(key.set /\ key.val # <<>>) THEN "next"
    ELSE IF ~header.present THEN "Missing Authorization header"
    ELSE IF IsPrefix(BearerPrefix, header.val)
    THEN LET token == SubSeq(header.val, Len(BearerPrefix) + 1,
                             Len(header.val))
         IN  IF token = key.val THEN "next" ELSE "Invalid API key"
    ELSE "Authorization header must use Bearer scheme"

\* where handle sends a request
Reject == [to |-> "reject", addr |-> <<>>]
ToSingle(a) == [to |-> "single", addr |-> a]
ToMultiplex == [to |-> "multiplex", addr |-> <<>>]

\* a dispatch that sends every model array to the multiplex path
handle_arrays_to_multiplex(body) ==
    IF /\ body.temperature.some
       /\ ~(0 <= body.temperature.val
            /\ body.temperature.val <= MAX_TEMPERATURE)
    THEN Reject
    ELSE IF body.max_tokens.some /\ body.max_tokens.val = 0 THEN Reject
    ELSE IF body.model.array /\ Len(body.model.models) >= 1
    THEN ToMultiplex
    ELSE IF body.model.array THEN Reject
    ELSE ToSingle(body.model.models[1])

\* completions.rs:33-63 handle
handle(body) ==
    IF /\ body.temperature.some
       /\ ~(0 <= body.temperature.val
            /\ body.temperature.val <= MAX_TEMPERATURE)
    THEN Reject
    ELSE IF body.max_tokens.some /\ body.max_tokens.val = 0 THEN Reject
    ELSE IF body.model.array /\ Len(body.model.models) > 1
    THEN ToMultiplex
    ELSE IF body.model.array /\ Len(body.model.models) = 1
    THEN ToSingle(body.model.models[1])
    ELSE IF body.model.array THEN Reject
    ELSE ToSingle(body.model.models[1])

\* discovery.rs:69-83 resolve_binary: the kind of the error, "Ok" when the
\* binary is found; override is "none", or tells whether the path of the
\* override exists
resolve_binary(on_path, override) ==
    IF override # "none"
    THEN IF override = "exists" THEN "Ok" ELSE "Internal"
    ELSE IF on_path THEN "Ok" ELSE "Internal"

\* factory.rs:18-34 create_runner
create_runner(k) == resolve_binary(k \in r_installed, r_override[k])

\* state.rs:48-63 get_runner
get_runner(k) == IF k \in r_runners THEN "Ok" ELSE create_runner(k)

\* the override settings of the server's environment
Overrides ==
    {[k \in Kinds |-> "none"],
     [k \in Kinds |-> IF k = "ClaudeCode" THEN "exists" ELSE "none"],
     [k \in Kinds |-> IF k = "ClaudeCode" THEN "missing" ELSE "none"]}

RestInit ==
    /\ api_key = Unset
    /\ r_default = "ClaudeCode"
    /\ r_installed \in {{}, {"Copilot"}}
    /\ r_override \in Overrides
    /\ r_runners = {}
    /\ r_req = NoRequest
    /\ r_pc = "idle"
    /\ r_addr = <<>>
    /\ r_started = 0
    /\ r_resp = NoRestResponse

\* the operator sets, changes or removes EMBACLE_API_KEY
SetApiKey(v) ==
    /\ api_key # v
    /\ api_key' = v
    /\ UNCHANGED <<r_default, r_installed, r_override, r_runners, r_req,
                   r_pc, r_addr, r_started, r_resp>>
    /\ UNCHANGED notRestVars

\* a request arrives on a route of router.rs:26-33
Receive(route, header) ==
    /\ r_pc \in {"idle", "responded"}
    /\ r_req' = Request(route, header)
    /\ r_pc' = "auth"
    /\ r_addr' = <<>>
    /\ r_started' = 0
    /\ r_resp' = NoRestResponse
    /\ UNCHANGED <<api_key, r_default, r_installed, r_override, r_runners>>
    /\ UNCHANGED notRestVars

\* router.rs:31, auth.rs:24-52: the middleware reads the key and lets the
\* request through or answers 401
Authenticate ==
    /\ r_pc = "auth"
    /\ IF require_auth(api_key, r_req.auth) = "next"
       THEN r_pc' = "handler" /\ r_resp' = r_resp
       ELSE /\ r_pc' = "responded"
            /\ r_resp' = Response(401, "authentication_error")
    /\ UNCHANGED <<api_key, r_default, r_installed, r_override, r_runners,
                   r_req, r_addr, r_started>>
    /\ UNCHANGED notRestVars

\* completions.rs:33-63 handle, on the body the Json extractor parsed
HandleCompletions(body) ==
    /\ r_pc = "handler"
    /\ r_req.route = "completions"
    /\ r_req' = [r_req EXCEPT !.body = body]
    /\ LET d == handle(body)
       IN  /\ r_pc' = IF d.to = "reject" THEN "responded" ELSE d.to
           /\ r_addr' = d.addr
           /\ r_resp' = IF d.to = "reject" THEN error_response(400)
                        ELSE r_resp
    /\ UNCHANGED <<api_key, r_default, r_installed, r_override, r_runners,
                   r_started>>
    /\ UNCHANGED notRestVars

\* completions.rs:71-82 handle_single: resolve the address, get the adapter
GetRunner ==
    /\ r_pc = "single"
    /\ LET k == resolve_model(r_addr, r_default).runner_type
           got == get_runner(k)
       IN  IF got = "Ok"
           THEN /\ r_runners' = r_runners \cup {k}
                /\ r_pc' = "completing"
                /\ r_resp' = r_resp
           ELSE /\ r_runners' = r_runners
                /\ r_pc' = "responded"
                /\ r_resp' = runner_error_to_response(got)
    /\ UNCHANGED <<api_key, r_default, r_installed, r_override, r_req,
                   r_addr, r_started>>
    /\ UNCHANGED notRestVars

\* completions.rs:84-124 handle_single: the adapter spawns its CLI for
\* complete or complete_stream; out is "Ok" or the kind of its error
Complete(out) ==
    /\ r_pc = "completing"
    /\ r_started' = r_started + 1
    /\ r_pc' = "responded"
    /\ r_resp' = IF out = "Ok"
                 THEN Response(200, IF r_req.body.stream
                                    THEN "chat.completion.chunk"
                                    ELSE "chat.completion")
                 ELSE runner_error_to_response(out)
    /\ UNCHANGED <<api_key, r_default, r_installed, r_override, r_runners,
                   r_req, r_addr>>
    /\ UNCHANGED notRestVars

\* completions.rs:133-189 handle_multiplex: a streaming request is
\* rejected; otherwise the engine starts one task per model, each of which
\* gets its adapter and completes (multiplex.rs:56-90)
HandleMultiplex ==
    /\ r_pc = "multiplex"
    /\ r_pc' = "responded"
    /\ IF r_req.body.stream
       THEN /\ r_resp' = error_response(400)
            /\ UNCHANGED <<r_runners, r_started>>
       ELSE LET models == r_req.body.model.models
                kinds ==
                    {resolve_model(models[i], r_default).runner_type :
                        i \in 1..Len(models)}
            IN  /\ r_runners' =
                       r_runners
                       \cup {k \in kinds : get_runner(k) = "Ok"}
                /\ r_started' = r_started + Len(models)
                /\ r_resp' = Response(200, "chat.completion.multiplex")
    /\ UNCHANGED <<api_key, r_default, r_installed, r_override, r_req,
                   r_addr>>
    /\ UNCHANGED notRestVars

\* the kinds whose binary models::handle and health::handle find
Resolvable ==
    {k \in Kinds : resolve_binary(k \in r_installed, r_override[k]) = "Ok"}

\* models.rs:23-69 handle: an adapter is got for every provider found
HandleModels ==
    /\ r_pc = "handler"
    /\ r_req.route = "models"
    /\ r_runners' = r_runners \cup Resolvable
    /\ r_pc' = "responded"
    /\ r_resp' = Response(200, "list")
    /\ UNCHANGED <<api_key, r_default, r_installed, r_override, r_req,
                   r_addr, r_started>>
    /\ UNCHANGED notRestVars

\* health.rs:24-70 handle: every provider found runs its health check;
\* ready are the providers whose check answers true
HandleHealth(ready) ==
    /\ r_pc = "handler"
    /\ r_req.route = "health"
    /\ ready \subseteq Resolvable
    /\ r_runners' = r_runners \cup Resolvable
    /\ r_started' = r_started + Cardinality(Resolvable)
    /\ r_pc' = "responded"
    /\ r_resp' = IF ready # {} THEN Response(200, "ok")
                 ELSE Response(503, "degraded")
    /\ UNCHANGED <<api_key, r_default, r_installed, r_override, r_req,
                   r_addr>>
    /\ UNCHANGED notRestVars

RestNext ==
    \/ \E v \in KeyValues : SetApiKey(v)
    \/ \E route \in Routes, header \in AuthHeaders : Receive(route, header)
    \/ Authenticate
    \/ \E body \in Bodies : HandleCompletions(body)
    \/ GetRunner
    \/ \E out \in {"Ok"} \cup CompleteErrors : Complete(out)
    \/ HandleMultiplex
    \/ HandleModels
    \/ \E ready \in SUBSET Kinds : HandleHealth(ready)

\* ========================================================================
\* MCP front: JSON-RPC messages and their responses
\* ========================================================================
\* protocol.rs:24-36
PARSE_ERROR == -32700
INVALID_REQUEST == -32600
METHOD_NOT_FOUND == -32601
INVALID_PARAMS == -32602

McpTransports == {"stdio", "http"}

\* the methods of server.rs:52-56 and one the server does not know
McpMethods ==
    {"initialize", "tools/list", "tools/call", "ping",
     "notifications/initialized"}

\* the params of a message: none, a value that is no CallToolParams, a call
\* of the prompt tool with an empty or a non-empty messages array, a call of
\* another registered tool, a call of a tool that is not registered
McpParams ==
    {"absent", "invalid", "prompt_empty", "prompt", "get_provider",
     "unknown_tool"}

\* a line of stdin or an HTTP body: json tells whether the text is a JSON
\* object; a field that is missing, or has the wrong type, is "absent";
\* the id is absent, null or a value
McpMessages ==
    [json : BOOLEAN,
     jsonrpc : {"absent", "1.0", "2.0"},
     id : {"absent", "null", "1"},
     method : McpMethods \cup {"absent"},
     params : McpParams]

NoMessage == [json |-> FALSE]

\* protocol.rs:43-54: serde_json::from_str::<JsonRpcRequest>; jsonrpc and
\* method are required strings
DeserializesRequest(msg) ==
    msg.json /\ msg.jsonrpc # "absent" /\ msg.method # "absent"

\* protocol.rs:48 id: Option<Value>: an absent id and a null id are None
RequestId(msg) == IF msg.id \in {"absent", "null"} THEN None ELSE msg.id

\* what a transport sends back: nothing, an HTTP 204 without a body, or a
\* JSON-RPC response (protocol.rs:84-108)
NoReply == [kind |-> "none", id |-> None, code |-> 0, result |-> None]

NoContent == [kind |-> "no_content", id |-> None, code |-> 0, result |-> None]

JsonRpcError(id, code) ==
    [kind |-> "error", id |-> id, code |-> code, result |-> None]

JsonRpcSuccess(id, result) ==
    [kind |-> "success", id |-> id, code |-> 0, result |-> result]

\* prompt.rs:130-163 parse_messages and tools/mod.rs:58-68 execute: whether
\* the tool call gets as far as a completion
ReachesCompletion(params) == params = "prompt"

\* server.rs:116-157 handle_tools_call; tool is the result of the tool when
\* it runs: "ok", or "error" for a CallToolResult with is_error
handle_tools_call(id, params, tool) ==
    IF params \in {"absent", "invalid"}
    THEN JsonRpcError(id, INVALID_PARAMS)
    ELSE IF params \in {"prompt_empty", "unknown_tool"}
    THEN JsonRpcSuccess(id, "error")
    ELSE JsonRpcSuccess(id, tool)

\* a dispatcher without the test for notifications
handle_request_answering_all(msg, tool) ==
    LET id == RequestId(msg)
    IN  IF msg.jsonrpc # "2.0" THEN JsonRpcError(id, INVALID_REQUEST)
        ELSE IF msg.method = "initialize"
        THEN JsonRpcSuccess(id, "capabilities")
        ELSE IF msg.method = "tools/list" THEN JsonRpcSuccess(id, "tools")
        ELSE IF msg.method = "tools/call"
        THEN handle_tools_call(id, msg.params, tool)
        ELSE IF msg.method = "ping" THEN JsonRpcSuccess(id, "empty")
        ELSE JsonRpcError(id, METHOD_NOT_FOUND)

\* server.rs:37-69 handle_request; NoReply stands for None
handle_request(msg, tool) ==
    LET id == RequestId(msg)
    IN  IF msg.jsonrpc # "2.0" THEN JsonRpcError(id, INVALID_REQUEST)
        ELSE IF id = None THEN NoReply
        ELSE IF msg.method = "initialize"
        THEN JsonRpcSuccess(id, "capabilities")
        ELSE IF msg.method = "tools/list" THEN JsonRpcSuccess(id, "tools")
        ELSE IF msg.method = "tools/call"
        THEN handle_tools_call(id, msg.params, tool)
        ELSE IF msg.method = "ping" THEN JsonRpcSuccess(id, "empty")
        ELSE JsonRpcError(id, METHOD_NOT_FOUND)

McpInit ==
    /\ mcp_transport \in McpTransports
    /\ mcp_msg = NoMessage
    /\ mcp_pc = "waiting"
    /\ mcp_reply = NoReply
    /\ mcp_replies = 0
    /\ mcp_started = 0

\* stdio.rs:34-37, http.rs:68-72: the next non-blank line of stdin, or the
\* body of the next POST
McpReceive(msg) ==
    /\ mcp_pc \in {"waiting", "done"}
    /\ mcp_msg' = msg
    /\ mcp_pc' = "received"
    /\ mcp_reply' = NoReply
    /\ mcp_replies' = 0
    /\ mcp_started' = 0
    /\ UNCHANGED mcp_transport
    /\ UNCHANGED notMcpVars

\* stdio.rs:39-48, http.rs:73-80: the message does not deserialize and the
\* transport answers with a parse error
McpParseError ==
    /\ mcp_pc = "received"
    /\ ~DeserializesRequest(mcp_msg)
    /\ mcp_reply' = JsonRpcError(None, PARSE_ERROR)
    /\ mcp_replies' = mcp_replies + 1
    /\ mcp_pc' = "done"
    /\ UNCHANGED <<mcp_transport, mcp_msg, mcp_started>>
    /\ UNCHANGED notMcpVars

\* stdio.rs:52-54, http.rs:84-98: the request is handled and the response,
\* when there is one, is sent; an HTTP notification is answered 204
McpDispatch(tool) ==
    /\ mcp_pc = "received"
    /\ DeserializesRequest(mcp_msg)
    /\ LET response == handle_request(mcp_msg, tool)
       IN  /\ mcp_reply' = IF response = NoReply /\ mcp_transport = "http"
                           THEN NoContent ELSE response
           /\ mcp_replies' = IF response = NoReply THEN mcp_replies
                             ELSE mcp_replies + 1
           /\ mcp_started' =
                  IF /\ response.kind = "success"
                     /\ mcp_msg.method = "tools/call"
                     /\ ReachesCompletion(mcp_msg.params)
                  THEN mcp_started + 1 ELSE mcp_started
    /\ mcp_pc' = "done"
    /\ UNCHANGED <<mcp_transport, mcp_msg>>
    /\ UNCHANGED notMcpVars

McpNext ==
    \/ \E msg \in McpMessages : McpReceive(msg)
    \/ McpParseError
    \/ \E tool \in {"ok", "error"} : McpDispatch(tool)

\* ========================================================================
\* Completion ids
\* ========================================================================
\* most ids generated in one process
MaxIds == 3

\* completions.rs:242 the least width of the sequence number ({seq:08x})
SEQ_WIDTH == 8

\* the tasks that generate ids at the same time
IdTasks == {1, 2}

\* the readings of the clock: the seconds are not monotonic, and the hex
\* numeral of one reading may be a prefix of another's
ClockValues == {1, 17, 26}

HexDigits ==
    <<"0", "1", "2", "3", "4", "5", "6", "7", "8", "9",
      "a", "b", "c", "d", "e", "f">>

\* {:x}: the hex numeral of n, as a sequence of characters
RECURSIVE Hex(_)
Hex(n) ==
    IF n < 16 THEN <<HexDigits[n + 1]>>
    ELSE Hex(n \div 16) \o <<HexDigits[(n % 16) + 1]>>

\* {:0w}: zeros on the left up to width w
RECURSIVE PadZeros(_, _)
PadZeros(txt, w) ==
    IF Len(txt) >= w THEN txt ELSE PadZeros(<<"0">> \o txt, w)

\* an id made of the timestamp alone
format_id_without_seq(ts, seq) == <<"chatcmpl-">> \o Hex(ts)

\* completions.rs:242 format!("chatcmpl-{ts:x}{seq:08x}")
format_id(ts, seq) ==
    <<"chatcmpl-">> \o Hex(ts) \o PadZeros(Hex(seq), SEQ_WIDTH)

IdleTask == [pc |-> "idle", ts |-> 0]

IdInit ==
    /\ id_clock \in ClockValues
    /\ id_counter = 0
    /\ id_task = [t \in IdTasks |-> IdleTask]
    /\ ids = <<>>

\* the wall clock moves, forwards or backwards
ClockMoves(v) ==
    /\ id_clock # v
    /\ id_clock' = v
    /\ UNCHANGED <<id_counter, id_task, ids>>
    /\ UNCHANGED notIdVars

\* completions.rs:240 let ts = unix_timestamp()
ReadTimestamp(t) ==
    /\ id_task[t].pc = "idle"
    /\ id_counter + Cardinality({u \in IdTasks : id_task[u].pc = "ts"})
           < MaxIds
    /\ id_task' = [id_task EXCEPT ![t] = [pc |-> "ts", ts |-> id_clock]]
    /\ UNCHANGED <<id_clock, id_counter, ids>>
    /\ UNCHANGED notIdVars

\* completions.rs:241-242: fetch_add is one atomic read-modify-write; the
\* task formats and returns its id
FetchAddAndFormat(t) ==
    /\ id_task[t].pc = "ts"
    /\ id_counter' = id_counter + 1
    /\ ids' = Append(ids, [by |-> t, ts |-> id_task[t].ts,
                           id |-> format_id(id_task[t].ts, id_counter)])
    /\ id_task' = [id_task EXCEPT ![t] = IdleTask]
    /\ UNCHANGED id_clock
    /\ UNCHANGED notIdVars

IdNext ==
    \/ \E v \in ClockValues : ClockMoves(v)
    \/ \E t \in IdTasks : ReadTimestamp(t)
    \/ \E t \in IdTasks : FetchAddAndFormat(t)

\* ========================================================================
\* Readiness probe
\* ========================================================================
\* how a probe subprocess run by run_cli_command ends: the ways of
\* RunOutcomes, with the exit code when the child exited
ProbeOutcomes ==
    {[run |-> "exited", exit_code |-> c] : c \in ExitCodes}
    \cup {[run |-> r, exit_code |-> 0] : r \in RunOutcomes \ {"exited"}}

\* auth.rs:25-47 ProviderReadiness, returned as Ok(status)
OkStatus(s) == [kind |-> "Ok", status |-> s]

\* a probe that passes the error of the run on to its caller
probe_status_propagating(out) ==
    IF out.run # "exited" THEN RunnerError(RunErrorKind(out.run), "run failed")
    ELSE IF out.exit_code = 0 THEN OkStatus("Ready")
    ELSE OkStatus("NotReady")

\* auth.rs:106-122, 143-163, 207-222: the match on the output of
\* run_cli_command in check_claude_readiness, check_copilot_readiness and
\* check_version_probe
probe_status(out) ==
    IF out.run # "exited" THEN OkStatus("Unknown")
    ELSE IF out.exit_code = 0 THEN OkStatus("Ready")
    ELSE OkStatus("NotReady")

ProbeInit ==
    /\ pr_kind \in Kinds
    /\ pr_exists \in BOOLEAN
    /\ pr_gh \in ProbeOutcomes
    /\ pr_cli \in ProbeOutcomes
    /\ pr_pc = "start"
    /\ pr_ran = <<>>
    /\ pr_result = [kind |-> "none"]

\* auth.rs:86-90: the binary path does not exist
BinaryMissing ==
    /\ pr_pc = "start"
    /\ ~pr_exists
    /\ pr_pc' = "returned"
    /\ pr_result' = OkStatus("BinaryMissing")
    /\ UNCHANGED <<pr_kind, pr_exists, pr_gh, pr_cli, pr_ran>>
    /\ UNCHANGED notProbeVars

\* auth.rs:93, 101-123 check_claude_readiness: `auth status`
ClaudeAuthStatus ==
    /\ pr_pc = "start"
    /\ pr_exists
    /\ pr_kind = "ClaudeCode"
    /\ pr_ran' = Append(pr_ran, "cli")
    /\ pr_pc' = "returned"
    /\ pr_result' = probe_status(pr_cli)
    /\ UNCHANGED <<pr_kind, pr_exists, pr_gh, pr_cli>>
    /\ UNCHANGED notProbeVars

\* auth.rs:94, 131-135, 171-190 check_gh_auth_status: `gh auth status`
\* decides when it ran to its exit; otherwise the version probe follows
GhAuthStatus ==
    /\ pr_pc = "start"
    /\ pr_exists
    /\ pr_kind = "Copilot"
    /\ pr_ran' = Append(pr_ran, "gh")
    /\ IF pr_gh.run = "exited"
       THEN /\ pr_pc' = "returned"
            /\ pr_result' = OkStatus(IF pr_gh.exit_code = 0 THEN "Ready"
                                     ELSE "NotReady")
       ELSE /\ pr_pc' = "fallback"
            /\ pr_result' = pr_result
    /\ UNCHANGED <<pr_kind, pr_exists, pr_gh, pr_cli>>
    /\ UNCHANGED notProbeVars

\* auth.rs:137-164 check_copilot_readiness: `copilot --version`
CopilotVersion ==
    /\ pr_pc = "fallback"
    /\ pr_ran' = Append(pr_ran, "cli")
    /\ pr_pc' = "returned"
    /\ pr_result' = probe_status(pr_cli)
    /\ UNCHANGED <<pr_kind, pr_exists, pr_gh, pr_cli>>
    /\ UNCHANGED notProbeVars

\* auth.rs:95-96, 197-223 check_version_probe: `--version`
VersionProbe ==
    /\ pr_pc = "start"
    /\ pr_exists
    /\ pr_kind \in {"CursorAgent", "OpenCode"}
    /\ pr_ran' = Append(pr_ran, "cli")
    /\ pr_pc' = "returned"
    /\ pr_result' = probe_status(pr_cli)
    /\ UNCHANGED <<pr_kind, pr_exists, pr_gh, pr_cli>>
    /\ UNCHANGED notProbeVars

ProbeNext ==
    \/ BinaryMissing
    \/ ClaudeAuthStatus
    \/ GhAuthStatus
    \/ CopilotVersion
    \/ VersionProbe

\* ========================================================================
\* Sandbox: the environment of the spawned CLI
\* ========================================================================
\* claude_code.rs:155
MaxTokensKey == "CLAUDE_CODE_MAX_OUTPUT_TOKENS"

\* the variables looked at: one of the default whitelist (config.rs:133-138),
\* one that no whitelist names, and the one Claude Code sets
EnvKeys == {"HOME", "SECRET", MaxTokensKey}

\* the environments of the gateway: a variable is unset, set to a Unicode
\* value, or set to a value that is not Unicode
ParentEnvs ==
    {env \in [EnvKeys -> {"unset", "set", "not_unicode"}] :
        env["SECRET"] # "not_unicode" /\ env[MaxTokensKey] # "not_unicode"}

\* the whitelists an adapter is configured with
Whitelists == {{}, {"HOME"}, {"HOME", MaxTokensKey}}

\* a Command: whether env_clear was called, and for every key whether the
\* command sets it, and to what
NewCommand == [cleared |-> FALSE, vars |-> [k \in EnvKeys |-> "none"]]

\* sandbox.rs:88-99 build_policy: the policy, or an Err (ok is FALSE) when
\* there is no usable configured directory and the current directory
\* cannot be read
build_policy(wd, cwd_ok, allowed) ==
    IF wd = "exists"
    THEN [ok |-> TRUE, dir |-> "configured", allowed_env_keys |-> allowed]
    ELSE IF cwd_ok
    THEN [ok |-> TRUE, dir |-> "current", allowed_env_keys |-> allowed]
    ELSE [ok |-> FALSE, dir |-> "none", allowed_env_keys |-> {}]

\* sandbox.rs:58-80 apply_sandbox: env_clear, then every allowed key for
\* which env::var is Ok (set, and Unicode) is set to the parent's value
apply_sandbox(cmd, policy, parent) ==
    [cleared |-> TRUE,
     vars |-> [k \in EnvKeys |->
                  IF k \in policy.allowed_env_keys /\ parent[k] = "set"
                  THEN "parent_value" ELSE "none"]]

\* claude_code.rs:139-156, copilot.rs:170-175, cursor_agent.rs:120-125,
\* opencode.rs:114-119: the end of build_command
build_command(k, parent, allowed, wd, cwd_ok, max_tokens) ==
    LET policy == build_policy(wd, cwd_ok, allowed)
        sandboxed == IF policy.ok
                     THEN apply_sandbox(NewCommand, policy, parent)
                     ELSE NewCommand
    IN  IF k = "ClaudeCode" /\ max_tokens
        THEN [sandboxed EXCEPT !.vars[MaxTokensKey] = "max_tokens"]
        ELSE sandboxed

\* std::process::Command: the child has what the command sets, and what the
\* parent has unless the environment was cleared
ChildEnv(cmd, parent) ==
    [k \in EnvKeys |->
        IF cmd.vars[k] # "none" THEN cmd.vars[k]
        ELSE IF ~cmd.cleared /\ parent[k] # "unset" THEN "parent_value"
        ELSE "none"]

EnvInit ==
    /\ e_kind \in Kinds
    /\ e_mode \in {"complete", "stream"}
    /\ e_parent \in ParentEnvs
    /\ e_allowed \in Whitelists
    /\ e_wd \in {"none", "exists", "missing"}
    /\ e_cwd_ok \in BOOLEAN
    /\ e_max_tokens \in BOOLEAN
    /\ e_pc = "start"
    /\ e_cmd = NewCommand
    /\ e_child = [k \in EnvKeys |-> "none"]

\* opencode.rs:216-220: OpenCode has no streaming; nothing is spawned
StreamingUnsupported ==
    /\ e_pc = "start"
    /\ e_kind = "OpenCode" /\ e_mode = "stream"
    /\ e_pc' = "failed"
    /\ UNCHANGED <<e_kind, e_mode, e_parent, e_allowed, e_wd, e_cwd_ok,
                   e_max_tokens, e_cmd, e_child>>
    /\ UNCHANGED notEnvVars

\* complete and complete_stream call build_command (claude_code.rs:226, 283)
BuildCommand ==
    /\ e_pc = "start"
    /\ ~(e_kind = "OpenCode" /\ e_mode = "stream")
    /\ e_cmd' = build_command(e_kind, e_parent, e_allowed, e_wd, e_cwd_ok,
                              e_max_tokens)
    /\ e_pc' = "built"
    /\ UNCHANGED <<e_kind, e_mode, e_parent, e_allowed, e_wd, e_cwd_ok,
                   e_max_tokens, e_child>>
    /\ UNCHANGED notEnvVars

\* the command is spawned, by run_cli_command or by cmd.spawn()
SpawnChild ==
    /\ e_pc = "built"
    /\ e_child' = ChildEnv(e_cmd, e_parent)
    /\ e_pc' = "spawned"
    /\ UNCHANGED <<e_kind, e_mode, e_parent, e_allowed, e_wd, e_cwd_ok,
                   e_max_tokens, e_cmd>>
    /\ UNCHANGED notEnvVars

EnvNext ==
    \/ StreamingUnsupported
    \/ BuildCommand
    \/ SpawnChild

\* ========================================================================
\* Prompt assembly
\* ========================================================================
MaxMsgs == 2

\* types.rs MessageRole
Roles == {"system", "user", "assistant"}

\* the messages of a request: a role and a content
ChatMessages == [role : Roles, content : {"a", "b"}]

NoSystem == [some |-> FALSE, val |-> ""]

\* prompt.rs:20-24: the label of a role
Label(role) ==
    CASE role = "system" -> "[system]"
      [] role = "user" -> "[user]"
      [] role = "assistant" -> "[assistant]"

\* prompt.rs:25 format!("{label}\n{}", msg.content): a text is a sequence
\* of pieces
Part(msg) == <<Label(msg.role), "\n", msg.content>>

\* prompt.rs:27 parts.join("\n\n")
RECURSIVE JoinParts(_)
JoinParts(msgs) ==
    IF msgs = <<>> THEN <<>>
    ELSE IF Len(msgs) = 1 THEN Part(msgs[1])
    ELSE Part(msgs[1]) \o <<"\n\n">> \o JoinParts(Tail(msgs))

\* prompt.rs:17-35 build_prompt: every message, labelled
build_prompt(msgs) == JoinParts(msgs)

\* prompt.rs:39-50 extract_system_message: the first system message
extract_system_message(msgs) ==
    IF \E i \in 1..Len(msgs) : msgs[i].role = "system"
    THEN LET i == CHOOSE i \in 1..Len(msgs) :
                      /\ msgs[i].role = "system"
                      /\ \A j \in 1..(i - 1) : msgs[j].role # "system"
         IN  [some |-> TRUE, val |-> msgs[i].content]
    ELSE NoSystem

\* prompt.rs:57-80 build_user_prompt: the messages that are not system
\* messages, labelled
build_user_prompt(msgs) ==
    JoinParts(SelectSeq(msgs, LAMBDA m : m.role # "system"))

\* what each adapter gives its CLI: claude_code.rs:223-226 and 280-283,
\* copilot.rs:233 and 261, cursor_agent.rs:200 and 246, opencode.rs:185
adapter_prompt(k, msgs) ==
    CASE k = "ClaudeCode" ->
             [system |-> extract_system_message(msgs),
              prompt |-> build_user_prompt(msgs)]
      [] k = "CursorAgent" ->
             [system |-> NoSystem, prompt |-> build_user_prompt(msgs)]
      [] k = "Copilot" ->
             [system |-> NoSystem, prompt |-> build_prompt(msgs)]
      [] k = "OpenCode" ->
             [system |-> NoSystem, prompt |-> build_prompt(msgs)]

PromptInit ==
    /\ pa_kind \in Kinds
    /\ pa_mode \in {"complete", "stream"}
    /\ pa_messages \in SeqsUpTo(ChatMessages, MaxMsgs)
    /\ pa_pc = "start"
    /\ pa_system = NoSystem
    /\ pa_prompt = <<>>

\* opencode.rs:216-220: OpenCode has no streaming and assembles nothing
PromptUnsupported ==
    /\ pa_pc = "start"
    /\ pa_kind = "OpenCode" /\ pa_mode = "stream"
    /\ pa_pc' = "failed"
    /\ UNCHANGED <<pa_kind, pa_mode, pa_messages, pa_system, pa_prompt>>
    /\ UNCHANGED notPromptVars

\* the first statements of complete and complete_stream
AssemblePrompt ==
    /\ pa_pc = "start"
    /\ ~(pa_kind = "OpenCode" /\ pa_mode = "stream")
    /\ pa_system' = adapter_prompt(pa_kind, pa_messages).system
    /\ pa_prompt' = adapter_prompt(pa_kind, pa_messages).prompt
    /\ pa_pc' = "assembled"
    /\ UNCHANGED <<pa_kind, pa_mode, pa_messages>>
    /\ UNCHANGED notPromptVars

PromptNext ==
    \/ PromptUnsupported
    \/ AssemblePrompt

\* ========================================================================
\* MCP server state and the tools that use it
\* ========================================================================
MaxToolCalls == 3

ToolTasks == {1, 2}

\* the arguments the tools are called with
ProviderArgs == {<<"claude">>, <<"copilot">>, <<"bogus">>}
ModelArgs == {NoModel, SomeModel(<<"m1">>)}
MultiplexArgs == {<<<<"copilot">>>>, <<<<"claude">>, <<"bogus">>>>}

\* state.rs:32-39 ServerState::new
NewServerState(provider) ==
    [active_provider |-> provider,
     active_model |-> NoModel,
     multiplex_providers |-> <<>>,
     runners |-> {}]

\* state.rs:47-50, without the reset of the model
set_active_provider_keeping_model(st, provider) ==
    [st EXCEPT !.active_provider = provider]

\* state.rs:47-50 set_active_provider
set_active_provider(st, provider) ==
    [st EXCEPT !.active_provider = provider, !.active_model = NoModel]

\* state.rs:58-60 set_active_model
set_active_model(st, model) == [st EXCEPT !.active_model = model]

\* state.rs:68-70 set_multiplex_providers
set_multiplex_providers(st, ps) == [st EXCEPT !.multiplex_providers = ps]

\* tools/multiplex.rs:87-101: the kinds the names parse to, and whether
\* every name parses
RECURSIVE ParseProviders(_)
ParseProviders(names) ==
    IF names = <<>> THEN [ok |-> TRUE, kinds |-> <<>>]
    ELSE LET k == parse_runner_type(names[1])
             rest == ParseProviders(Tail(names))
         IN  IF k = None \/ ~rest.ok THEN [ok |-> FALSE, kinds |-> <<>>]
             ELSE [ok |-> TRUE, kinds |-> <<k>> \o rest.kinds]

\* the statements of each tool's execute, in program order
\* tools/provider.rs:70-91 SetProvider::execute
SetProviderSteps ==
    <<"parse", "write", "set_active_provider", "drop", "reply">>

\* tools/model.rs:90-109 SetModel::execute
SetModelSteps ==
    <<"write", "set_active_model", "active_provider", "drop", "reply">>

\* tools/multiplex.rs:82-113 SetMultiplexProvider::execute
SetMultiplexSteps ==
    <<"parse", "write", "set_multiplex_providers", "drop", "reply">>

\* tools/prompt.rs:80-104, taking the guard once for the provider and once
\* more for the model
execute_single_two_guards ==
    <<"write", "active_provider", "get_runner", "drop",
      "write", "active_model", "drop", "complete", "reply">>

\* tools/prompt.rs:80-104 execute_single
execute_single ==
    <<"write", "active_provider", "get_runner", "active_model", "drop",
      "complete", "reply">>

ToolNames == {"set_provider", "set_model", "set_multiplex_provider", "prompt"}

StepsOf(tool) ==
    CASE tool = "set_provider" -> SetProviderSteps
      [] tool = "set_model" -> SetModelSteps
      [] tool = "set_multiplex_provider" -> SetMultiplexSteps
      [] tool = "prompt" -> execute_single

\* a tool call: its tool, its argument, the statement it is at, the values
\* it has read, and its result
IdleTool ==
    [tool |-> "none", provider_arg |-> <<>>, model_arg |-> NoModel,
     providers_arg |-> <<>>, pc |-> 0, provider |-> None,
     model |-> NoModel, result |-> "none"]

ToolCalls ==
    {[IdleTool EXCEPT !.tool = "set_provider", !.provider_arg = a, !.pc = 1] :
        a \in ProviderArgs}
    \cup {[IdleTool EXCEPT !.tool = "set_model", !.model_arg = a, !.pc = 1] :
        a \in ModelArgs}
    \cup {[IdleTool EXCEPT !.tool = "set_multiplex_provider",
                           !.providers_arg = a, !.pc = 1] :
        a \in MultiplexArgs}
    \cup {[IdleTool EXCEPT !.tool = "prompt", !.pc = 1]}

\* the statement task t is at
At(t, step) ==
    /\ ts_tasks[t].tool \in ToolNames
    /\ ts_tasks[t].pc \in 1..Len(StepsOf(ts_tasks[t].tool))
    /\ StepsOf(ts_tasks[t].tool)[ts_tasks[t].pc] = step

Advance(t) == [ts_tasks EXCEPT ![t].pc = @ + 1]

Finish(t, result) ==
    [ts_tasks EXCEPT ![t].pc = 0, ![t].result = result]

ActivePair(st) ==
    [provider |-> st.active_provider, model |-> st.active_model]

ToolInit ==
    /\ \E d \in {"ClaudeCode", "Copilot"} : ts_state = NewServerState(d)
    /\ ts_lock = 0
    /\ ts_tasks = [t \in ToolTasks |-> IdleTool]
    /\ ts_calls = 0
    /\ ts_installed \in {{"ClaudeCode"}, {"ClaudeCode", "Copilot"}}
    /\ ts_history = {ActivePair(ts_state)}

\* server.rs: a tools/call request starts the tool's execute
CallTool(t, call) ==
    /\ ts_tasks[t].pc = 0
    /\ ts_calls < MaxToolCalls
    /\ ts_tasks' = [ts_tasks EXCEPT ![t] = call]
    /\ ts_calls' = ts_calls + 1
    /\ UNCHANGED <<ts_state, ts_lock, ts_installed, ts_history>>
    /\ UNCHANGED notToolVars

\* tools/provider.rs:71-80, tools/multiplex.rs:83-101: an argument that names
\* no provider ends the call before the state is touched
ParseArguments(t) ==
    /\ At(t, "parse")
    /\ LET call == ts_tasks[t]
           ok == IF call.tool = "set_provider"
                 THEN parse_runner_type(call.provider_arg) # None
                 ELSE ParseProviders(call.providers_arg).ok
       IN  ts_tasks' = IF ok THEN Advance(t) ELSE Finish(t, "error")
    /\ UNCHANGED <<ts_state, ts_lock, ts_calls, ts_installed, ts_history>>
    /\ UNCHANGED notToolVars

\* state.write().await
WriteLock(t) ==
    /\ At(t, "write")
    /\ ts_lock = 0
    /\ ts_lock' = t
    /\ ts_tasks' = Advance(t)
    /\ UNCHANGED <<ts_state, ts_calls, ts_installed, ts_history>>
    /\ UNCHANGED notToolVars

\* the guard is dropped
DropGuard(t) ==
    /\ At(t, "drop")
    /\ ts_lock = t
    /\ ts_lock' = 0
    /\ ts_tasks' = Advance(t)
    /\ UNCHANGED <<ts_state, ts_calls, ts_installed, ts_history>>
    /\ UNCHANGED notToolVars

\* tools/provider.rs:82
SetActiveProvider(t) ==
    /\ At(t, "set_active_provider")
    /\ ts_lock = t
    /\ ts_state' = set_active_provider(
                       ts_state, parse_runner_type(ts_tasks[t].provider_arg))
    /\ ts_history' = ts_history \cup {ActivePair(ts_state')}
    /\ ts_tasks' = Advance(t)
    /\ UNCHANGED <<ts_lock, ts_calls, ts_installed>>
    /\ UNCHANGED notToolVars

\* tools/model.rs:97
SetActiveModel(t) ==
    /\ At(t, "set_active_model")
    /\ ts_lock = t
    /\ ts_state' = set_active_model(ts_state, ts_tasks[t].model_arg)
    /\ ts_history' = ts_history \cup {ActivePair(ts_state')}
    /\ ts_tasks' = Advance(t)
    /\ UNCHANGED <<ts_lock, ts_calls, ts_installed>>
    /\ UNCHANGED notToolVars

\* tools/multiplex.rs:104
SetMultiplexProviders(t) ==
    /\ At(t, "set_multiplex_providers")
    /\ ts_lock = t
    /\ ts_state' = set_multiplex_providers(
                       ts_state, ParseProviders(ts_tasks[t].providers_arg).kinds)
    /\ ts_tasks' = Advance(t)
    /\ UNCHANGED <<ts_lock, ts_calls, ts_installed, ts_history>>
    /\ UNCHANGED notToolVars

\* tools/prompt.rs:82, tools/model.rs:98: state_guard.active_provider()
ReadActiveProvider(t) ==
    /\ At(t, "active_provider")
    /\ ts_lock = t
    /\ ts_tasks' = [Advance(t) EXCEPT ![t].provider = ts_state.active_provider]
    /\ UNCHANGED <<ts_state, ts_lock, ts_calls, ts_installed, ts_history>>
    /\ UNCHANGED notToolVars

\* tools/prompt.rs:89: state_guard.active_model()
ReadActiveModel(t) ==
    /\ At(t, "active_model")
    /\ ts_lock = t
    /\ ts_tasks' = [Advance(t) EXCEPT ![t].model = ts_state.active_model]
    /\ UNCHANGED <<ts_state, ts_lock, ts_calls, ts_installed, ts_history>>
    /\ UNCHANGED notToolVars

\* tools/prompt.rs:83-88 and state.rs:75-87 get_runner: the cached runner,
\* or a new one that is cached; when the factory fails the call returns and
\* its guard is dropped
ToolGetRunner(t) ==
    /\ At(t, "get_runner")
    /\ ts_lock = t
    /\ LET k == ts_tasks[t].provider
       IN  IF k \in ts_state.runners
           THEN /\ ts_tasks' = Advance(t)
                /\ UNCHANGED <<ts_state, ts_lock>>
           ELSE IF k \in ts_installed
           THEN /\ ts_state' = [ts_state EXCEPT !.runners = @ \cup {k}]
                /\ ts_tasks' = Advance(t)
                /\ UNCHANGED ts_lock
           ELSE /\ ts_tasks' = Finish(t, "error")
                /\ ts_lock' = 0
                /\ UNCHANGED ts_state
    /\ UNCHANGED <<ts_calls, ts_installed, ts_history>>
    /\ UNCHANGED notToolVars

\* tools/prompt.rs:92-103: runner.complete(&request) with the model read
ToolComplete(t, ok) ==
    /\ At(t, "complete")
    /\ ts_tasks' = IF ok THEN Advance(t) ELSE Finish(t, "error")
    /\ UNCHANGED <<ts_state, ts_lock, ts_calls, ts_installed, ts_history>>
    /\ UNCHANGED notToolVars

\* the CallToolResult of a call that went through
ToolReply(t) ==
    /\ At(t, "reply")
    /\ ts_tasks' = Finish(t, "text")
    /\ UNCHANGED <<ts_state, ts_lock, ts_calls, ts_installed, ts_history>>
    /\ UNCHANGED notToolVars

ToolNext ==
    \/ \E t \in ToolTasks, call \in ToolCalls : CallTool(t, call)
    \/ \E t \in ToolTasks : ParseArguments(t)
    \/ \E t \in ToolTasks : WriteLock(t)
    \/ \E t \in ToolTasks : DropGuard(t)
    \/ \E t \in ToolTasks : SetActiveProvider(t)
    \/ \E t \in ToolTasks : SetActiveModel(t)
    \/ \E t \in ToolTasks : SetMultiplexProviders(t)
    \/ \E t \in ToolTasks : ReadActiveProvider(t)
    \/ \E t \in ToolTasks : ReadActiveModel(t)
    \/ \E t \in ToolTasks : ToolGetRunner(t)
    \/ \E t \in ToolTasks, ok \in BOOLEAN : ToolComplete(t, ok)
    \/ \E t \in ToolTasks : ToolReply(t)

\* ========================================================================
\* Text tool loop
\* ========================================================================
\* tool_simulation.rs:357
MAX_TOOL_ITERATIONS == 10

\* the largest max_iterations argument tried: above the ceiling
MaxIterationsArg == 11

\* the largest number of <tool_call> blocks in one response
MaxBlocks == 2

NoLoopResult == [kind |-> "none", finish_reason |-> "", tool_calls_count |-> 0]

\* tool_simulation.rs:404, without the ceiling
effective_max_unclamped(max_iterations) ==
    max_iterations

\* tool_simulation.rs:404 max_iterations.min(MAX_TOOL_ITERATIONS)
effective_max(max_iterations) ==
    Min(max_iterations, MAX_TOOL_ITERATIONS)

LoopInit ==
    /\ tl_max_iterations \in 0..MaxIterationsArg
    /\ tl_pc = "start"
    /\ tl_iteration = 0
    /\ tl_pending = 0
    /\ tl_parsed = 0
    /\ tl_count = 0
    /\ tl_appended = 0
    /\ tl_completions = 0
    /\ tl_handled = 0
    /\ tl_plain = 0
    /\ tl_result = NoLoopResult

\* tool_simulation.rs:392-404: the catalog is injected, the counter is zero
InjectCatalog ==
    /\ tl_pc = "start"
    /\ tl_pc' = "loop"
    /\ tl_count' = 0
    /\ UNCHANGED <<tl_max_iterations, tl_iteration, tl_pending, tl_parsed,
                   tl_appended, tl_completions, tl_handled, tl_plain,
                   tl_result>>
    /\ UNCHANGED notLoopVars

\* tool_simulation.rs:406-428: one more iteration; the provider answers with
\* n parsed tool calls, and a response without any is returned
ProviderAnswers(n) ==
    /\ tl_pc = "loop"
    /\ tl_iteration < effective_max(tl_max_iterations)
    /\ tl_completions' = tl_completions + 1
    /\ IF n = 0
       THEN /\ tl_plain' = tl_plain + 1
            /\ tl_result' = [kind |-> "Ok", finish_reason |-> "stop",
                             tool_calls_count |-> tl_count]
            /\ tl_pc' = "returned"
            /\ UNCHANGED <<tl_pending, tl_parsed>>
       ELSE /\ tl_pending' = n
            /\ tl_parsed' = n
            /\ tl_pc' = "handling"
            /\ UNCHANGED <<tl_plain, tl_result>>
    /\ UNCHANGED <<tl_max_iterations, tl_iteration, tl_count, tl_appended,
                   tl_handled>>
    /\ UNCHANGED notLoopVars

\* tool_simulation.rs:408: provider.complete(&request).await? fails
ProviderFails ==
    /\ tl_pc = "loop"
    /\ tl_iteration < effective_max(tl_max_iterations)
    /\ tl_completions' = tl_completions + 1
    /\ tl_result' = [kind |-> "Err", finish_reason |-> "",
                     tool_calls_count |-> 0]
    /\ tl_pc' = "returned"
    /\ UNCHANGED <<tl_max_iterations, tl_iteration, tl_pending, tl_parsed,
                   tl_count, tl_appended, tl_handled, tl_plain>>
    /\ UNCHANGED notLoopVars

\* tool_simulation.rs:438-442: the handler is invoked for one parsed call
InvokeHandler ==
    /\ tl_pc = "handling"
    /\ tl_pending > 0
    /\ tl_pending' = tl_pending - 1
    /\ tl_handled' = tl_handled + 1
    /\ UNCHANGED <<tl_max_iterations, tl_pc, tl_iteration, tl_parsed, tl_count,
                   tl_appended, tl_completions, tl_plain, tl_result>>
    /\ UNCHANGED notLoopVars

\* tool_simulation.rs:444-458: the calls are counted; the assistant text, if
\* it is not empty, and the tool results are pushed; the next iteration
AppendResults(has_text) ==
    /\ tl_pc = "handling"
    /\ tl_pending = 0
    /\ tl_count' = tl_count + tl_parsed
    /\ tl_appended' = tl_appended + (IF has_text THEN 2 ELSE 1)
    /\ tl_iteration' = tl_iteration + 1
    /\ tl_pc' = "loop"
    /\ UNCHANGED <<tl_max_iterations, tl_pending, tl_parsed, tl_completions,
                   tl_handled, tl_plain, tl_result>>
    /\ UNCHANGED notLoopVars

\* tool_simulation.rs:460-466: the range is exhausted
ReturnMaxIterations ==
    /\ tl_pc = "loop"
    /\ tl_iteration >= effective_max(tl_max_iterations)
    /\ tl_result' = [kind |-> "Ok", finish_reason |-> "max_iterations",
                     tool_calls_count |-> tl_count]
    /\ tl_pc' = "returned"
    /\ UNCHANGED <<tl_max_iterations, tl_iteration, tl_pending, tl_parsed,
                   tl_count, tl_appended, tl_completions, tl_handled, tl_plain>>
    /\ UNCHANGED notLoopVars

LoopNext ==
    \/ InjectCatalog
    \/ \E n \in 0..MaxBlocks : ProviderAnswers(n)
    \/ ProviderFails
    \/ InvokeHandler
    \/ \E has_text \in BOOLEAN : AppendResults(has_text)
    \/ ReturnMaxIterations

\* ========================================================================
\* Adapter registry: progress of get_runner
\* ========================================================================
MaxCallers == 2

\* the requests, and the multiplex tasks, that call get_runner
Callers == 1..MaxCallers

\* copilot.rs:118-130: the constructor of the Copilot adapter runs
\* `gh copilot models` and waits for it; the other constructors run nothing
ConstructorProbes(k) == k = "Copilot"

RegInit ==
    /\ rg_kind \in [Callers -> Kinds]
    /\ rg_pc = [i \in Callers |-> "Idle"]
    /\ rg_lock = 0
    /\ rg_runners = {}
    /\ rg_found \in {Kinds, Kinds \ {"OpenCode"}}

\* completions.rs, multiplex.rs:101-103: state.get_runner(provider) is
\* called and waits for the mutex
CallGetRunner(i) ==
    /\ rg_pc[i] = "Idle"
    /\ rg_pc' = [rg_pc EXCEPT ![i] = "Waiting"]
    /\ UNCHANGED <<rg_kind, rg_lock, rg_runners, rg_found>>
    /\ UNCHANGED notRegVars

\* state.rs:52 self.runners.lock().await
RegLock(i) ==
    /\ rg_pc[i] = "Waiting"
    /\ rg_lock = 0
    /\ rg_lock' = i
    /\ rg_pc' = [rg_pc EXCEPT ![i] = "Locked"]
    /\ UNCHANGED <<rg_kind, rg_runners, rg_found>>
    /\ UNCHANGED notRegVars

\* state.rs:54-56: a cached adapter is returned and the guard dropped
RegLookup(i) ==
    /\ rg_pc[i] = "Locked"
    /\ IF rg_kind[i] \in rg_runners
       THEN /\ rg_pc' = [rg_pc EXCEPT ![i] = "Returned"]
            /\ rg_lock' = 0
       ELSE /\ rg_pc' = [rg_pc EXCEPT ![i] = "Creating"]
            /\ UNCHANGED rg_lock
    /\ UNCHANGED <<rg_kind, rg_runners, rg_found>>
    /\ UNCHANGED notRegVars

\* state.rs:58 with factory.rs:18-34: the binary is resolved; a failure
\* returns the error; the constructor of Copilot starts its probe; every
\* other adapter is constructed, inserted and returned (state.rs:59-62)
RegCreate(i) ==
    /\ rg_pc[i] = "Creating"
    /\ IF rg_kind[i] \notin rg_found
       THEN /\ rg_pc' = [rg_pc EXCEPT ![i] = "Returned"]
            /\ rg_lock' = 0
            /\ UNCHANGED rg_runners
       ELSE IF ConstructorProbes(rg_kind[i])
       THEN /\ rg_pc' = [rg_pc EXCEPT ![i] = "Probing"]
            /\ UNCHANGED <<rg_lock, rg_runners>>
       ELSE /\ rg_pc' = [rg_pc EXCEPT ![i] = "Returned"]
            /\ rg_runners' = rg_runners \cup {rg_kind[i]}
            /\ rg_lock' = 0
    /\ UNCHANGED <<rg_kind, rg_found>>
    /\ UNCHANGED notRegVars

\* copilot.rs:63-97: Command::output() returns when `gh copilot models`
\* exits, whatever its outcome; the adapter is inserted and returned
GhExits(i) ==
    /\ rg_pc[i] = "Probing"
    /\ rg_pc' = [rg_pc EXCEPT ![i] = "Returned"]
    /\ rg_runners' = rg_runners \cup {rg_kind[i]}
    /\ rg_lock' = 0
    /\ UNCHANGED <<rg_kind, rg_found>>
    /\ UNCHANGED notRegVars

RegNext ==
    \/ \E i \in Callers : CallGetRunner(i)
    \/ \E i \in Callers : RegLock(i)
    \/ \E i \in Callers : RegLookup(i)
    \/ \E i \in Callers : RegCreate(i)
    \/ \E i \in Callers : GhExits(i)

\* the steps of get_runner itself are taken; when the external command
\* exits is not up to the program
RegFairness ==
    \A i \in Callers :
        /\ WF_vars(RegLock(i))
        /\ WF_vars(RegLookup(i))
        /\ WF_vars(RegCreate(i))

\* ========================================================================
\* The model list and the ids it hands out
\* ========================================================================
\* most lines of a `gh copilot models` output
MaxDiscovered == 2

\* runner/mod.rs:13-18 ALL_PROVIDERS, in listing order
ALL_PROVIDERS == <<"ClaudeCode", "Copilot", "CursorAgent", "OpenCode">>

\* LlmProvider::name of each adapter (claude_code.rs:201-203,
\* copilot.rs:200-202, cursor_agent.rs:170-172, opencode.rs:164-166)
name(k) ==
    IF k = "ClaudeCode" THEN "claude-code"
    ELSE IF k = "CursorAgent" THEN "cursor-agent"
    ELSE IF k = "OpenCode" THEN "opencode"
    ELSE "copilot"

\* the lines a `gh copilot models` run can print: model names, one of them
\* with a colon in it
DiscoveredLine == {<<"gpt-4o">>, <<"gpt-5">>, <<"gpt-4o", ":", "gpt-5">>}

DiscoveredModels ==
    UNION {[1..n -> DiscoveredLine] : n \in 1..MaxDiscovered}

\* FALLBACK_MODELS of each adapter (claude_code.rs:47, copilot.rs:42-56,
\* cursor_agent.rs:64, opencode.rs:57-61)
FALLBACK_MODELS(k) ==
    IF k = "ClaudeCode" THEN <<<<"sonnet">>, <<"opus">>, <<"haiku">>>>
    ELSE IF k = "CursorAgent"
    THEN <<<<"sonnet-4">>, <<"gpt-5">>, <<"gemini-2.5-pro">>>>
    ELSE IF k = "OpenCode"
    THEN <<<<"anthropic/claude-sonnet-4">>, <<"anthropic/claude-opus-4">>,
           <<"openai/gpt-5">>>>
    ELSE <<<<"claude-sonnet-4.6">>, <<"claude-opus-4.6">>,
           <<"claude-opus-4.6-fast">>, <<"claude-sonnet-4.5">>,
           <<"claude-haiku-4.5">>, <<"claude-sonnet-4">>,
           <<"gpt-5.2-codex">>, <<"gpt-5.2">>, <<"gpt-5.1-codex">>,
           <<"gpt-5.1">>, <<"gpt-5-mini">>, <<"gpt-4.1">>,
           <<"gemini-3-pro-preview">>>>

\* LlmProvider::available_models: the list the adapter was built with
\* (claude_code.rs:86, cursor_agent.rs:86, opencode.rs:83: the fallback
\* list; copilot.rs:123-124: the discovered list, else the fallback list)
available_models(k, discovered) ==
    IF k = "Copilot" /\ discovered.some THEN discovered.val
    ELSE FALLBACK_MODELS(k)

\* openai_types.rs:203-210 ModelObject; kind and model record which
\* provider listed the entry and which of its models the entry is for
ModelObject(id, k, model) ==
    [id |-> id, owned_by |-> name(k), kind |-> k, model |-> model]

\* models.rs:40-57: the entries of one provider
ProviderEntries(k, models) ==
    IF models = <<>>
    THEN <<ModelObject(<<name(k)>>, k, NoModel)>>
    ELSE [i \in 1..Len(models) |->
             ModelObject(<<name(k), ":">> \o models[i], k,
                         SomeModel(models[i]))]

\* models.rs:23-69 handle: the entries of every provider found, in the
\* order of ALL_PROVIDERS, from position i on
RECURSIVE ModelsData(_, _, _)
ModelsData(i, created, discovered) ==
    IF i > Len(ALL_PROVIDERS) THEN <<>>
    ELSE (IF ALL_PROVIDERS[i] \in created
          THEN ProviderEntries(ALL_PROVIDERS[i],
                   available_models(ALL_PROVIDERS[i], discovered))
          ELSE <<>>)
         \o ModelsData(i + 1, created, discovered)

\* a server with some default provider, some providers installed, and
\* some outcome of Copilot's model discovery
ListInit ==
    /\ ml_created \in SUBSET Kinds
    /\ ml_discovered \in
           {[some |-> FALSE, val |-> <<>>]}
           \cup {[some |-> TRUE, val |-> l] : l \in DiscoveredModels}
    /\ ml_default \in Kinds
    /\ ml_pc = "start"
    /\ ml_data = <<>>
    /\ ml_sent = 0
    /\ ml_resolved = Unresolved

\* models.rs:23-69 handle: GET /v1/models
GetModels ==
    /\ ml_pc = "start"
    /\ ml_data' = ModelsData(1, ml_created, ml_discovered)
    /\ ml_pc' = "listed"
    /\ UNCHANGED <<ml_created, ml_discovered, ml_default, ml_sent,
                   ml_resolved>>
    /\ UNCHANGED notListVars

\* completions.rs:69: a client sends the i-th listed id as the model of a
\* completion request
SendListedId(i) ==
    /\ ml_pc = "listed"
    /\ i \in 1..Len(ml_data)
    /\ ml_sent' = i
    /\ ml_resolved' = resolve_model(ml_data[i].id, ml_default)
    /\ ml_pc' = "resolved"
    /\ UNCHANGED <<ml_created, ml_discovered, ml_default, ml_data>>
    /\ UNCHANGED notListVars

\* the positions of the longest data array
ListPositions ==
    1..(Len(ModelsData(1, Kinds, [some |-> FALSE, val |-> <<>>]))
        + MaxDiscovered)

ListNext ==
    \/ GetModels
    \/ \E i \in ListPositions : SendListedId(i)

\* ========================================================================
\* Specifications
\* ========================================================================
RunSpecInit ==
    RunInit /\ StreamIdle /\ MuxIdle /\ SessIdle /\ ClaudeIdle /\ ResolveIdle
    /\ RestIdle
    /\ McpIdle
    /\ IdIdle
    /\ ProbeIdle
    /\ EnvIdle
    /\ PromptIdle
    /\ ToolIdle
    /\ LoopIdle
    /\ RegIdle
    /\ ListIdle

RunSpec == RunSpecInit /\ [][RunNext]_vars

\* the steps of run_cli_command and of its drainer tasks are taken, and the
\* timer fires while the child runs; when the child or a process it started
\* writes or exits is not up to the program
RunFairness ==
    /\ WF_vars(SpawnFails \/ Spawn)
    /\ WF_vars(WaitOk \/ WaitFails)
    /\ WF_vars(Timeout)
    /\ WF_vars(JoinStdout)
    /\ WF_vars(JoinStderr)
    /\ \A p \in Pipes :
          /\ WF_vars(\E n \in 1..TMP_BUF_LEN : DrainerRead(p, n))
          /\ WF_vars(DrainerEof(p))

RunFairSpec == RunSpec /\ RunFairness

StreamSpecInit ==
    StreamInit /\ RunIdle /\ MuxIdle /\ SessIdle /\ ClaudeIdle /\ ResolveIdle
    /\ RestIdle
    /\ McpIdle
    /\ IdIdle
    /\ ProbeIdle
    /\ EnvIdle
    /\ PromptIdle
    /\ ToolIdle
    /\ LoopIdle
    /\ RegIdle
    /\ ListIdle

StreamSpec == StreamSpecInit /\ [][StreamNext]_vars

MuxSpecInit ==
    MuxInit /\ RunIdle /\ StreamIdle /\ SessIdle /\ ClaudeIdle /\ ResolveIdle
    /\ RestIdle
    /\ McpIdle
    /\ IdIdle
    /\ ProbeIdle
    /\ EnvIdle
    /\ PromptIdle
    /\ ToolIdle
    /\ LoopIdle
    /\ RegIdle
    /\ ListIdle

MuxSpec == MuxSpecInit /\ [][MuxNext]_vars

SessSpecInit ==
    SessInit /\ RunIdle /\ StreamIdle /\ MuxIdle /\ ClaudeIdle /\ ResolveIdle
    /\ RestIdle
    /\ McpIdle
    /\ IdIdle
    /\ ProbeIdle
    /\ EnvIdle
    /\ PromptIdle
    /\ ToolIdle
    /\ LoopIdle
    /\ RegIdle
    /\ ListIdle

SessSpec == SessSpecInit /\ [][SessNext]_vars

ClaudeSpecInit ==
    ClaudeInit /\ RunIdle /\ StreamIdle /\ MuxIdle /\ SessIdle /\ ResolveIdle
    /\ RestIdle
    /\ McpIdle
    /\ IdIdle
    /\ ProbeIdle
    /\ EnvIdle
    /\ PromptIdle
    /\ ToolIdle
    /\ LoopIdle
    /\ RegIdle
    /\ ListIdle

ClaudeSpec == ClaudeSpecInit /\ [][ClaudeNext]_vars

ResolveSpecInit ==
    ResolveInit /\ RunIdle /\ StreamIdle /\ MuxIdle /\ SessIdle /\ ClaudeIdle
    /\ RestIdle
    /\ McpIdle
    /\ IdIdle
    /\ ProbeIdle
    /\ EnvIdle
    /\ PromptIdle
    /\ ToolIdle
    /\ LoopIdle
    /\ RegIdle
    /\ ListIdle

ResolveSpec == ResolveSpecInit /\ [][ResolveNext]_vars

RestSpecInit ==
    RestInit /\ RunIdle /\ StreamIdle /\ MuxIdle /\ SessIdle /\ ClaudeIdle
    /\ ResolveIdle
    /\ McpIdle
    /\ IdIdle
    /\ ProbeIdle
    /\ EnvIdle
    /\ PromptIdle
    /\ ToolIdle
    /\ LoopIdle
    /\ RegIdle
    /\ ListIdle

RestSpec == RestSpecInit /\ [][RestNext]_vars

McpSpecInit ==
    McpInit /\ RunIdle /\ StreamIdle /\ MuxIdle /\ SessIdle /\ ClaudeIdle
    /\ ResolveIdle /\ RestIdle
    /\ IdIdle
    /\ ProbeIdle
    /\ EnvIdle
    /\ PromptIdle
    /\ ToolIdle
    /\ LoopIdle
    /\ RegIdle
    /\ ListIdle

McpSpec == McpSpecInit /\ [][McpNext]_vars

IdSpecInit ==
    IdInit /\ RunIdle /\ StreamIdle /\ MuxIdle /\ SessIdle /\ ClaudeIdle
    /\ ResolveIdle /\ RestIdle /\ McpIdle
    /\ ProbeIdle
    /\ EnvIdle
    /\ PromptIdle
    /\ ToolIdle
    /\ LoopIdle
    /\ RegIdle
    /\ ListIdle

IdSpec == IdSpecInit /\ [][IdNext]_vars

ProbeSpecInit ==
    ProbeInit /\ RunIdle /\ StreamIdle /\ MuxIdle /\ SessIdle /\ ClaudeIdle
    /\ ResolveIdle /\ RestIdle /\ McpIdle /\ IdIdle
    /\ EnvIdle
    /\ PromptIdle
    /\ ToolIdle
    /\ LoopIdle
    /\ RegIdle
    /\ ListIdle

ProbeSpec == ProbeSpecInit /\ [][ProbeNext]_vars

EnvSpecInit ==
    EnvInit /\ RunIdle /\ StreamIdle /\ MuxIdle /\ SessIdle /\ ClaudeIdle
    /\ ResolveIdle /\ RestIdle /\ McpIdle /\ IdIdle /\ ProbeIdle
    /\ PromptIdle
    /\ ToolIdle
    /\ LoopIdle
    /\ RegIdle
    /\ ListIdle

EnvSpec == EnvSpecInit /\ [][EnvNext]_vars

PromptSpecInit ==
    PromptInit /\ RunIdle /\ StreamIdle /\ SessIdle /\ ClaudeIdle
    /\ ResolveIdle /\ RestIdle /\ McpIdle /\ IdIdle /\ ProbeIdle /\ EnvIdle
    /\ MuxIdle
    /\ ToolIdle
    /\ LoopIdle
    /\ RegIdle
    /\ ListIdle

PromptSpec == PromptSpecInit /\ [][PromptNext]_vars

ToolSpecInit ==
    ToolInit /\ RunIdle /\ StreamIdle /\ SessIdle /\ ClaudeIdle
    /\ ResolveIdle /\ RestIdle /\ McpIdle /\ IdIdle /\ ProbeIdle /\ EnvIdle
    /\ PromptIdle /\ MuxIdle
    /\ LoopIdle
    /\ RegIdle
    /\ ListIdle

ToolSpec == ToolSpecInit /\ [][ToolNext]_vars

LoopSpecInit ==
    LoopInit /\ RunIdle /\ StreamIdle /\ SessIdle /\ ClaudeIdle
    /\ ResolveIdle /\ RestIdle /\ McpIdle /\ IdIdle /\ ProbeIdle /\ EnvIdle
    /\ PromptIdle /\ ToolIdle /\ MuxIdle
    /\ RegIdle
    /\ ListIdle

LoopSpec == LoopSpecInit /\ [][LoopNext]_vars

RegSpecInit ==
    RegInit /\ RunIdle /\ StreamIdle /\ SessIdle /\ ClaudeIdle
    /\ ResolveIdle /\ RestIdle /\ McpIdle /\ IdIdle /\ ProbeIdle /\ EnvIdle
    /\ PromptIdle /\ ToolIdle /\ LoopIdle /\ MuxIdle
    /\ ListIdle

RegSpec == RegSpecInit /\ [][RegNext]_vars

ListSpecInit ==
    ListInit /\ RunIdle /\ StreamIdle /\ SessIdle /\ ClaudeIdle
    /\ ResolveIdle /\ RestIdle /\ McpIdle /\ IdIdle /\ ProbeIdle /\ EnvIdle
    /\ PromptIdle /\ ToolIdle /\ LoopIdle /\ RegIdle /\ MuxIdle

ListSpec == ListSpecInit /\ [][ListNext]_vars

RegFairSpec == RegSpec /\ RegFairness

\* every provider.complete and every handler call returns, so the loop
\* keeps taking steps
LoopFairSpec == LoopSpec /\ WF_vars(LoopNext)

\* ------------------------------------------------------------------------
\* Properties of the bounded run
\* ------------------------------------------------------------------------

\* C5: when the child of a bounded run has not exited by the time the
\* timeout elapses, the run returns an error whose kind is Timeout.
TimeoutReturnsTimeoutKind ==
    (run_pc = "returned" /\ timed_out) => run_result.kind = "Timeout"

\* C6: when a bounded run times out, by the time the call returns the child
\* has been killed and no drainer task of the invocation is still running.
TimeoutAbortsDrainers ==
    (run_pc = "returned" /\ timed_out) =>
        /\ kill_sent
        /\ \A p \in Pipes : drainer[p] # "running"

\* C7: every subprocess the gateway spawns and waits for runs under a
\* wall-clock timeout: while the caller waits for a child that never exits,
\* a timeout is armed that will kill it.
EveryWaitHasTimeout ==
    (run_pc = "waiting" /\ child = "running" /\ hangs) => timer_armed

\* C8: for every bounded run with cap C (0 meaning the default) and every
\* amount and chunking of child output, each capture buffer, and each buffer
\* of the returned output, holds at most C bytes and is a prefix of what the
\* child wrote on that pipe.
CapturedWithinCap ==
    UsesBoundedRun(invocation) =>
        LET cap == IF max_output_bytes = 0 THEN DEFAULT_MAX_OUTPUT_BYTES
                   ELSE max_output_bytes
        IN  /\ \A p \in Pipes :
                 /\ Len(buf[p]) <= cap
                 /\ IsPrefix(buf[p], Bytes(1, written[p]))
            /\ run_result.kind = "Ok" =>
                 /\ run_result.stdout = buf["stdout"]
                 /\ run_result.stderr = buf["stderr"]

\* C8 witness: a bounded run with cap 0 returned a stdout truncated at the
\* default cap although the child had written more.
CapturedWithinCapWitness ==
    /\ UsesBoundedRun(invocation)
    /\ max_output_bytes = 0
    /\ run_result.kind = "Ok"
    /\ Len(run_result.stdout) = DEFAULT_MAX_OUTPUT_BYTES
    /\ written["stdout"] > DEFAULT_MAX_OUTPUT_BYTES

\* C9: a drainer that has captured cap bytes keeps reading and discarding
\* until end of file: it ends only when the child is gone and the pipe is
\* empty, and the child never writes on a pipe whose read end was closed.
DrainerReadsToEof ==
    UsesBoundedRun(invocation) =>
        \A p \in Pipes :
            /\ drainer[p] = "done" =>
                 (child \in {"zombie", "reaped"} /\ consumed[p] = written[p])
            /\ ~broken_pipe[p]

\* ------------------------------------------------------------------------
\* Properties of the guarded stream
\* ------------------------------------------------------------------------

\* C3: whenever a guarded stream is dropped - after the inner stream ended,
\* after it yielded an error, or while chunks are still pending - the drop
\* has signalled the child to terminate and aborted the stderr drain task
\* (which therefore is not running any more).
DropKillsAndAborts ==
    s_state = "dropped" =>
        /\ s_kill_sent
        /\ s_abort_sent
        /\ s_drain \in {"done", "aborted"}

\* C3 witness: a stream dropped by a cancelling caller: the inner stream had
\* not ended, the child still had lines to deliver, the drain was running.
DropKillsAndAbortsWitness ==
    /\ s_state = "dropped"
    /\ ~s_ended
    /\ s_read < Len(s_script)
    /\ s_kill_sent
    /\ s_drain = "aborted"

\* C4: no zombies: once the stream of a spawned child has been dropped, the
\* child has terminated and been reaped.
DroppedStreamChildReaped ==
    s_state = "dropped" => s_child = "reaped"

\* ------------------------------------------------------------------------
\* Properties of the multiplex engine and the adapter registry
\* ------------------------------------------------------------------------

\* C1: for every provider list and every order in which the tasks finish,
\* the responses collected so far are those of the first tasks in input
\* order, and the returned result holds exactly one outcome per provider,
\* outcome i being the outcome of the task started for providers[i].
OutcomesInInputOrder ==
    /\ \A j \in 1..Len(responses) :
         IF t_pc[j] = "Crashed"
         THEN responses[j].error = "Task join error"
         ELSE /\ t_pc[j] \in {"Ok", "Err"}
              /\ responses[j] = t_out[j]
              /\ responses[j].provider = KindToString(providers[j])
    /\ mux_pc = "returned" =>
         /\ mux_result.kind = "Ok"
         /\ Len(responses) = Len(providers)

\* C1 witness: a call returned although its tasks finished in an order other
\* than the input order.
OutcomesInInputOrderWitness ==
    /\ mux_pc = "returned"
    /\ out_of_order
    /\ \E i, j \in Tasks : i < j /\ responses[i] # responses[j]

\* C2 as stated: in a returned call, every task that did not fail has an
\* outcome with non-empty content and no error.
PeersHaveNonEmptyContent ==
    mux_pc = "returned" =>
        \A i \in Tasks :
            t_pc[i] = "Ok" =>
                /\ responses[i].content \notin {None, ""}
                /\ responses[i].error = None

\* C2 amended: a multiplex call in which K tasks fail still returns Ok with
\* one outcome per provider; every task whose completion succeeded has its
\* content recorded (populated, possibly the empty text) with no error; the
\* summary counts exactly the succeeded tasks; and a task that failed or
\* crashed never keeps the registry locked against its peers.
FailuresAreIsolated ==
    /\ \A i \in Tasks : t_pc[i] \in Terminal => lock # i
    /\ mux_pc = "returned" =>
         /\ mux_result.kind = "Ok"
         /\ Len(responses) = Len(providers)
         /\ \A i \in Tasks :
              t_pc[i] = "Ok" =>
                  /\ responses[i].content # None
                  /\ responses[i].content = t_out[i].content
                  /\ responses[i].error = None
         /\ mux_result.summary[1] = Cardinality({i \in Tasks : t_pc[i] = "Ok"})
         /\ mux_result.summary[3] = Len(providers)

\* C2 witness: a returned call in which one task crashed and a peer succeeded.
FailuresAreIsolatedWitness ==
    /\ mux_pc = "returned"
    /\ \E i, j \in Tasks :
         /\ t_pc[i] = "Crashed"
         /\ t_pc[j] = "Ok"
         /\ responses[j].content # None

\* C10: for any provider kind, concurrent first-touch get_runner calls get
\* the same adapter instance, which is the cached one, and the adapter of a
\* kind is constructed at most once (exactly once if anyone obtained it).
RegistrySingleInstance ==
    /\ \A k \in Kinds : built[k] <= 1
    /\ \A i \in Tasks :
         t_got[i] # 0 =>
             /\ built[providers[i]] = 1
             /\ t_got[i] = runners[providers[i]]
    /\ \A i, j \in Tasks :
         (providers[i] = providers[j] /\ t_got[i] # 0 /\ t_got[j] # 0)
             => t_got[i] = t_got[j]

\* C10 witness: two tasks of the same kind both called get_runner while the
\* cache had no entry for it, and both obtained an adapter.
RegistrySingleInstanceWitness ==
    \E i, j \in Tasks :
        /\ i # j
        /\ providers[i] = providers[j]
        /\ t_first[i] /\ t_first[j]
        /\ t_got[i] # 0 /\ t_got[j] # 0

\* a task whose get_runner returned an error: it ended without an adapter
ConstructionFailed(i) == t_pc[i] = "Err" /\ t_got[i] = 0

\* C11: a failed adapter construction is not cached: the step in which
\* get_runner fails for kind K leaves the cache without an entry for K and
\* otherwise unchanged, and every later get_runner for K that finds the
\* cache empty constructs again, succeeding when the binary is resolvable
\* by then.
FailedConstructionNotCached ==
    [][\A i \in Tasks :
          /\ (~ConstructionFailed(i) /\ ConstructionFailed(i)')
                => /\ runners' = runners
                   /\ runners'[providers[i]] = 0
                   /\ built' = built
          /\ (/\ t_pc[i] = "Locked" /\ t_pc'[i] # "Locked"
              /\ \E j \in Tasks : /\ ConstructionFailed(j)
                                   /\ providers[j] = providers[i]
              /\ built[providers[i]] = 0)
                => t_pc'[i] = "Creating"
          /\ (/\ t_pc[i] = "Creating" /\ t_pc'[i] \notin {"Creating", "Crashed"}
              /\ binary[providers[i]] = "found")
                => /\ t_pc'[i] = "Dispatched"
                   /\ runners'[providers[i]] = t_got'[i]
                   /\ t_got'[i] # 0
    ]_vars

\* C11 witness: get_runner failed for a kind, the binary became resolvable,
\* and a later get_runner for the same kind constructed the adapter.
FailedConstructionNotCachedWitness ==
    \E i, j \in Tasks :
        /\ providers[i] = providers[j]
        /\ ConstructionFailed(j)
        /\ t_got[i] # 0
        /\ runners[providers[i]] = t_got[i]

\* ------------------------------------------------------------------------
\* Properties of the chunk streams
\* ------------------------------------------------------------------------

IsFinal(item) == item.kind = "chunk" /\ item.is_final

\* C12: in the chunk stream of every streaming adapter, whatever lines the
\* CLI writes, at most one chunk has is_final = TRUE and that chunk is the
\* last item the stream emits.
FinalChunkIsUniqueAndLast ==
    /\ Cardinality({i \in 1..Len(s_items) : IsFinal(s_items[i])}) <= 1
    /\ \A i \in 1..Len(s_items) : IsFinal(s_items[i]) => i = Len(s_items)

\* the deltas of the non-empty chunks, concatenated in emission order
RECURSIVE ConcatDeltas(_)
ConcatDeltas(items) ==
    IF items = <<>> THEN ""
    ELSE (IF Head(items).delta # "" THEN Head(items).delta ELSE "")
         \o ConcatDeltas(Tail(items))

\* a stream consumed to its end without an error item
SuccessfulStream ==
    /\ s_ended
    /\ \A i \in 1..Len(s_items) : s_items[i].kind = "chunk"

\* C13: in any successful stream of any of the three streaming adapters,
\* the deltas of the non-empty chunks concatenated in emission order are
\* exactly the provider's textual output.
DeltasReproduceOutput ==
    SuccessfulStream => ConcatDeltas(s_items) = ProviderOutput(s_adapter, s_script)

\* ------------------------------------------------------------------------
\* Properties of the multiplex outcomes and tasks
\* ------------------------------------------------------------------------

ExactlyOnePopulated(r) == (r.content # None) # (r.error # None)

\* C14: every outcome a multiplex call collects has exactly one of content
\* and error populated, whichever path produced it: adapter fetch failure,
\* completion error, completion success or task crash; so has the outcome
\* every finished task hands to the collector.
OutcomeHasContentXorError ==
    /\ \A j \in 1..Len(responses) : ExactlyOnePopulated(responses[j])
    /\ \A i \in Tasks : t_pc[i] \in Terminal => ExactlyOnePopulated(JoinOutcome(i))

\* C14 witness: a returned call holding the outcome of a successful
\* completion and the outcome of a completion that returned an error.
OutcomeHasContentXorErrorWitness ==
    /\ mux_pc = "returned"
    /\ \E i, j \in Tasks :
         /\ responses[i].content # None
         /\ t_pc[j] = "Err" /\ t_got[j] # 0
         /\ responses[j].error # None

\* the states of the task state machine the positions of a task stand for;
\* a task that crashed ended in error
Phase(pc) ==
    IF pc \in {"Unspawned", "Init"} THEN "Init"
    ELSE IF pc \in {"FetchAdapter", "Locked", "Creating"} THEN "FetchAdapter"
    ELSE IF pc = "Dispatched" THEN "Dispatched"
    ELSE IF pc = "Ok" THEN "Ok"
    ELSE "Err"

PhaseMoves == {<<"Init", "FetchAdapter">>, <<"FetchAdapter", "Dispatched">>,
               <<"FetchAdapter", "Err">>, <<"Dispatched", "Ok">>,
               <<"Dispatched", "Err">>}

\* C15: each multiplex task moves only along
\* Init -> FetchAdapter -> Dispatched -> (Ok | Err), a failed adapter fetch
\* going to Err without dispatching; nothing takes a started task out of
\* this path (also when the caller goes away); and the call returns only
\* after every task has reached Ok or Err.
TaskLifecycle ==
    /\ [][\A i \in Tasks :
             \/ Phase(t_pc'[i]) = Phase(t_pc[i])
             \/ <<Phase(t_pc[i]), Phase(t_pc'[i])>> \in PhaseMoves]_vars
    /\ [][\A i \in Tasks :
             (ConstructionFailed(i)' /\ ~ConstructionFailed(i))
                 => Phase(t_pc[i]) = "FetchAdapter"]_vars
    /\ [](mux_pc = "returned" =>
             \A i \in Tasks : Phase(t_pc[i]) \in {"Ok", "Err"})

\* C15 witness: a call returned after one task failed to get its adapter
\* and another went through dispatch to Ok.
TaskLifecycleWitness ==
    /\ mux_pc = "returned"
    /\ \E i, j \in Tasks : ConstructionFailed(i) /\ t_pc[j] = "Ok"

\* ------------------------------------------------------------------------
\* Properties of the requests and the adapter sessions
\* ------------------------------------------------------------------------

Running(c) == calls[c].pc = "running"

\* the step starts call c
Starts(c) == calls[c].pc = "idle" /\ calls'[c].pc = "running"

\* the step is the return of the non-streaming call c
Returns(c) ==
    /\ Running(c)
    /\ calls[c].mode \in {"complete", "multiplex"}
    /\ calls'[c].pc = "idle"

\* C16: every request a multiplex call dispatches carries no model, also
\* when its address entry had a model part: the command gets the adapter's
\* default model and no resume flag, and the return of the call leaves the
\* adapter's session map as it was.
MultiplexCarriesNoModel ==
    /\ [](\A c \in 1..MaxCalls :
            (Running(c) /\ calls[c].mode = "multiplex") =>
                /\ calls[c].request.model = None
                /\ calls[c].model_arg = "default"
                /\ calls[c].resume = None)
    /\ [][\A c \in 1..MaxCalls :
            (Returns(c) /\ calls[c].mode = "multiplex") =>
                session_ids' = session_ids]_vars

\* C16 witness: a multiplex call is running for an address entry with a
\* model part for which the adapter holds a session.
MultiplexCarriesNoModelWitness ==
    \E c \in 1..MaxCalls :
        /\ Running(c)
        /\ calls[c].mode = "multiplex"
        /\ calls[c].entry # None
        /\ session_ids[calls[c].entry] # None

\* C17: when a non-streaming completion whose request carried model m
\* returns successfully with a response that carried session id s, the
\* session map maps m to s afterwards, whatever it held for m before, and
\* its entries for the other models are unchanged.
SessionStoredOnSuccess ==
    [][\A c \in 1..MaxCalls, res \in AllCompleteResults :
          (/\ Returns(c)
           /\ calls[c].request.model # None
           /\ res.kind = "Ok"
           /\ res.session_id # None
           /\ CompleteReturns(c, res))
              => /\ session_ids'[calls[c].request.model] = res.session_id
                 /\ \A m \in ModelNames \ {calls[c].request.model} :
                        session_ids'[m] = session_ids[m]]_vars

\* C17 witness: the map holds s2 for a model while a call that was started
\* earlier still carries s1 for it: s1 was stored and then replaced.
SessionStoredOnSuccessWitness ==
    \E c \in 1..MaxCalls :
        /\ Running(c)
        /\ calls[c].request.model # None
        /\ calls[c].resume = "s1"
        /\ session_ids[calls[c].request.model] = "s2"

\* C18: a completion, streaming or not, gets the resume flag exactly when
\* its request carries a model m for which the session map holds an entry
\* at the moment the command is built, and the id passed is the one most
\* recently stored for m.
ResumeIffSessionKnown ==
    [][\A c \in 1..MaxCalls :
          Starts(c) =>
              LET m == calls'[c].request.model
              IN  /\ (calls'[c].resume # None) <=>
                        (m # None /\ HasSessions(a_kind) /\ session_ids[m] # None)
                  /\ calls'[c].resume # None =>
                        /\ calls'[c].resume = session_ids[m]
                        /\ calls'[c].resume = stored_last[m]]_vars

\* C18 witness: a streaming completion resumes s2 while a non-streaming
\* completion for the same model, started before s2 was stored, resumed s1.
ResumeIffSessionKnownWitness ==
    \E c, d \in 1..MaxCalls :
        /\ Running(c) /\ Running(d)
        /\ calls[c].mode = "stream" /\ calls[d].mode = "complete"
        /\ calls[c].request.model = calls[d].request.model
        /\ calls[c].resume = "s2" /\ calls[d].resume = "s1"

\* ------------------------------------------------------------------------
\* Properties of the Claude Code completion
\* ------------------------------------------------------------------------

ExitedWith(code) == cc_child.run = "exited" /\ cc_child.exit_code = code

\* C19 as stated: the completion succeeds iff the child exits with code 0
\* and its stdout is valid UTF-8 JSON with is_error false; a non-zero exit
\* gives ExternalService before any parsing, is_error = true gives
\* ExternalService carrying the result text, and output that is not UTF-8
\* or not JSON gives Internal.
ClaudeSucceedsIffValidJson ==
    cc_pc = "returned" =>
        LET doc == cc_child.doc
        IN  /\ cc_result.kind = "Ok" <=>
                  (ExitedWith(0) /\ ValidJson(doc) /\ ~Has(doc, "e"))
            /\ (cc_child.run = "exited" /\ cc_child.exit_code # 0) =>
                  (cc_result.kind = "ExternalService" /\ ~cc_parsed)
            /\ (ExitedWith(0) /\ ValidJson(doc) /\ Has(doc, "e")) =>
                  (cc_result.kind = "ExternalService"
                   /\ cc_result.message = ResultText)
            /\ (ExitedWith(0) /\ ~ValidJson(doc)) => cc_result.kind = "Internal"

\* C19 amended: the completion succeeds iff the run returns exit code 0 and
\* the captured stdout (the first MAX_OUTPUT_BYTES the child wrote)
\* deserializes into the response structure with is_error false; a non-zero
\* exit gives ExternalService before any parsing; is_error = true gives
\* ExternalService carrying the result text, or a default message when the
\* response has no result; captured output that is not UTF-8 or does not
\* deserialize gives Internal.
ClaudeSucceedsIffResponseParses ==
    cc_pc = "returned" =>
        LET raw == Captured(cc_child.doc, MAX_OUTPUT_BYTES)
        IN  /\ cc_result.kind = "Ok" <=>
                  (ExitedWith(0) /\ Deserializes(raw) /\ ~Has(raw, "e"))
            /\ (cc_child.run = "exited" /\ cc_child.exit_code # 0) =>
                  (cc_result.kind = "ExternalService" /\ ~cc_parsed)
            /\ (ExitedWith(0) /\ Deserializes(raw) /\ Has(raw, "e")) =>
                  /\ cc_result.kind = "ExternalService"
                  /\ cc_result.message =
                         IF Has(raw, "r") THEN ResultText ELSE "Unknown error"
            /\ (ExitedWith(0) /\ ~Deserializes(raw)) =>
                  cc_result.kind = "Internal"

\* C19 witness: a completion returned successfully with a result text and a
\* session id.
ClaudeSucceedsIffResponseParsesWitness ==
    /\ cc_pc = "returned"
    /\ cc_result.kind = "Ok"
    /\ cc_result.content = ResultText
    /\ cc_result.session_id # None

\* ------------------------------------------------------------------------
\* Properties of the address resolution
\* ------------------------------------------------------------------------

\* the names and aliases of kind k
NamesOf(k) ==
    IF k = "ClaudeCode" THEN ClaudeCodeNames
    ELSE IF k = "Copilot" THEN CopilotNames
    ELSE IF k = "CursorAgent" THEN CursorAgentNames
    ELSE OpenCodeNames

\* the text is one word that is a name of kind k up to the case of letters
Names(txt, k) == Len(txt) = 1 /\ ToLower(txt[1]) \in NamesOf(k)

Known(txt) == \E k \in Kinds : Names(txt, k)

HasColon(txt) == \E i \in 1..Len(txt) : txt[i] = ":"

\* C20: resolve_model gives a result for every address and follows the
\* table, the address being split at its first colon and provider names
\* matched whatever the case of their letters: "P:M" with known P gives
\* {P, Some(M)}; "P:" gives {P, None}; a bare provider name gives
\* {that provider, None}; "X:M" with unknown X gives
\* {default, Some(whole input)}; any other string without a colon gives
\* {default, Some(input)}.
ResolveFollowsTable ==
    resolved.called =>
        /\ resolved.runner_type \in Kinds
        /\ \A k \in Kinds :
              (/\ Len(model_str) >= 2
               /\ Names(<<model_str[1]>>, k)
               /\ model_str[2] = ":") =>
                  LET M == SubSeq(model_str, 3, Len(model_str))
                  IN  /\ resolved.runner_type = k
                      /\ resolved.model =
                             IF M = <<>> THEN NoModel ELSE SomeModel(M)
        /\ \A k \in Kinds :
              Names(model_str, k) =>
                  (resolved.runner_type = k /\ resolved.model = NoModel)
        /\ \A i \in 1..Len(model_str) :
              LET X == SubSeq(model_str, 1, i - 1)
              IN  (model_str[i] = ":" /\ ~HasColon(X) /\ ~Known(X)) =>
                      /\ resolved.runner_type = default_provider
                      /\ resolved.model = SomeModel(model_str)
        /\ (~HasColon(model_str) /\ ~Known(model_str)) =>
              /\ resolved.runner_type = default_provider
              /\ resolved.model = SomeModel(model_str)

\* C20 witness: an address whose prefix is a provider alias in upper case
\* and whose model part contains a colon was resolved to that provider, not
\* to the default one.
ResolveFollowsTableWitness ==
    /\ resolved.called
    /\ Len(model_str) = 3
    /\ model_str[1] = "COPILOT" /\ model_str[2] = ":" /\ model_str[3] = ":"
    /\ default_provider # "Copilot"
    /\ resolved.runner_type = "Copilot"
    /\ resolved.model = SomeModel(<<":">>)

SseEvents == sse_response(s_items, s_ended)

\* C22: when a stream is consumed to its end without an error, the SSE
\* events are an initial event with role "assistant", then content deltas,
\* then a final event with a finish_reason, then [DONE]; exactly one event
\* carries the role and exactly one carries a finish_reason.
SseSequenceWellFormed ==
    SuccessfulStream =>
        LET ev == SseEvents
            n == Len(ev)
        IN  /\ n >= 3
            /\ ev[1].role = "assistant"
            /\ Cardinality({i \in 1..n : ev[i].role # None}) = 1
            /\ Cardinality({i \in 1..n : ev[i].finish_reason # None}) = 1
            /\ ev[n - 1].finish_reason # None
            /\ ev[n] = SseDone
            /\ \A i \in 1..(n - 1) : ev[i].kind = "chunk"

\* ------------------------------------------------------------------------
\* Properties of the REST front
\* ------------------------------------------------------------------------

\* the request has been answered with 400
Rejected400 == r_pc = "responded" /\ r_resp.status = 400

\* C23 (REST front): a chat-completion request whose messages list is
\* empty is answered with 400 by the entry point, without an adapter being
\* fetched or a subprocess started. (The MCP prompt tool rejects an empty
\* list in parse_messages, prompt.rs:158-160: McpEmptyMessagesRejected.)
EmptyMessagesRejected ==
    (/\ r_req.route = "completions"
     /\ r_req.body.parsed
     /\ r_req.body.messages = <<>>) =>
        Rejected400 /\ r_started = 0

\* temperature within [0, MAX_TEMPERATURE] and max_tokens above 0
ValidParams(body) ==
    /\ body.temperature.some =>
           (0 <= body.temperature.val
            /\ body.temperature.val <= MAX_TEMPERATURE)
    /\ body.max_tokens.some => body.max_tokens.val > 0

\* C24: a valid request with a model array of more than one entry goes to
\* the multiplex path, where it is rejected with 400 exactly when stream is
\* set; a scalar model or an array of one entry goes to the single-provider
\* path with that entry; an empty array is rejected with 400; every
\* rejection leaves the adapter cache as it was and starts nothing.
RoutingFollowsModelField ==
    [][/\ (r_pc = "handler" /\ r_req.route = "completions"
           /\ r_pc' # "handler") =>
              LET b == r_req'.body
                  n == Len(b.model.models)
              IN  /\ (ValidParams(b) /\ b.model.array /\ n > 1) =>
                         r_pc' = "multiplex"
                  /\ (ValidParams(b) /\ (~b.model.array \/ n = 1)) =>
                         r_pc' = "single" /\ r_addr' = b.model.models[1]
                  /\ (b.model.array /\ n = 0) => Rejected400'
                  /\ ~ValidParams(b) => Rejected400'
       /\ (r_pc = "multiplex" /\ r_pc' # "multiplex") =>
              (r_req.body.stream <=> Rejected400')
       /\ (r_pc \in {"handler", "multiplex"}
           /\ r_req.route = "completions" /\ Rejected400') =>
              /\ r_runners' = r_runners
              /\ r_started' = 0]_vars

\* a streaming request for two models is rejected while the cache holds an
\* adapter from an earlier request
RoutingFollowsModelFieldWitness ==
    /\ Rejected400
    /\ r_req.route = "completions"
    /\ r_req.body.parsed
    /\ ValidParams(r_req.body)
    /\ r_req.body.model.array
    /\ Len(r_req.body.model.models) = 2
    /\ r_req.body.stream
    /\ r_runners # {}
    /\ r_started = 0

\* C25: when the binary of the provider of a single-provider request is not
\* on PATH and no override is set, resolving it fails with BinaryNotFound
\* and the request is answered 503 provider_not_available.
NotInstalledGives503 ==
    [][LET k == resolve_model(r_addr, r_default).runner_type
       IN  (/\ r_pc = "single"
            /\ r_pc' = "responded"
            /\ k \notin r_installed
            /\ r_override[k] = "none") =>
               /\ resolve_binary(FALSE, "none") = "BinaryNotFound"
               /\ r_resp' = Response(503, "provider_not_available")]_vars

\* the key is unset or empty, or the header is "Bearer <key>"
Authorized ==
    \/ ~api_key.set
    \/ api_key.val = <<>>
    \/ r_req.auth.present /\ r_req.auth.val = BearerPrefix \o api_key.val

\* C27: whatever key changes and requests came before, the middleware lets
\* a request through to its handler exactly when, at the time it processes
\* the request, the key is unset or empty or the Authorization header is
\* "Bearer <current key>".
HandlerReachedIffAuthorized ==
    [][(r_pc = "auth" /\ r_pc' # "auth") =>
           (r_pc' = "handler" <=> Authorized)]_vars

\* a request with the second key passes after the key was set to it, and one
\* with the first key is refused
HandlerReachedIffAuthorizedWitness ==
    /\ api_key = SetTo(<<"k", "2">>)
    /\ r_req.route = "completions"
    /\ r_req.auth = Header(BearerPrefix \o <<"k", "2">>)
    /\ r_pc = "completing"
    /\ r_runners = {"Copilot"}

\* ------------------------------------------------------------------------
\* Properties of the MCP front
\* ------------------------------------------------------------------------

\* the transport sent a JSON-RPC response for the message
Answered == mcp_reply.kind \in {"error", "success"}

\* the message has been processed
McpDone == mcp_pc = "done"

McpEmptyMessagesRejected ==
    (/\ McpDone
     /\ DeserializesRequest(mcp_msg)
     /\ mcp_msg.method = "tools/call"
     /\ mcp_msg.params = "prompt_empty") =>
        /\ mcp_started = 0
        /\ mcp_reply.kind = "success" => mcp_reply.result = "error"

\* ------------------------------------------------------------------------
\* Properties of the completion ids
\* ------------------------------------------------------------------------

\* C28: the ids generated in one process are pairwise distinct, whichever
\* tasks generated them and whatever the clock read, the same second
\* included.
IdsPairwiseDistinct ==
    \A i, j \in 1..Len(ids) : i # j => ids[i].id # ids[j].id

\* two tasks have generated ids within the same second
IdsPairwiseDistinctWitness ==
    \E i, j \in 1..Len(ids) :
        /\ i < j
        /\ ids[i].by # ids[j].by
        /\ ids[i].ts = ids[j].ts
        /\ ids[i].id # ids[j].id

\* ------------------------------------------------------------------------
\* Properties of the readiness probe
\* ------------------------------------------------------------------------

\* the outcome of the probe subprocess that check_readiness ran last
LastProbe == IF pr_ran[Len(pr_ran)] = "gh" THEN pr_gh ELSE pr_cli

ChildEnvIsWhitelisted ==
    e_pc = "spawned" =>
        \A k \in EnvKeys :
            /\ e_child[k] = "parent_value" =>
                   k \in e_allowed /\ e_parent[k] # "unset"
            /\ e_child[k] = "max_tokens" =>
                   /\ k = MaxTokensKey
                   /\ e_kind = "ClaudeCode"
                   /\ e_max_tokens

\* When build_policy succeeds the child's environment is the whitelisted
\* part of the parent's, plus the key Claude Code sets.
SandboxedChildIsWhitelisted ==
    build_policy(e_wd, e_cwd_ok, e_allowed).ok => ChildEnvIsWhitelisted

\* ------------------------------------------------------------------------
\* Properties of the prompt assembly
\* ------------------------------------------------------------------------

\* C31: the prompt Cursor Agent passes to its CLI holds every message of
\* the request, system messages included, in order and with their role
\* labels: it is the combined assembly of the messages.
CursorPromptHasEveryMessage ==
    (pa_pc = "assembled" /\ pa_kind = "CursorAgent") =>
        pa_prompt = build_prompt(pa_messages)

\* The adapters the spec gives the combined assembly to, other than Cursor
\* Agent, do pass every message.
CombinedAdaptersPassEveryMessage ==
    (pa_pc = "assembled" /\ pa_kind \in {"Copilot", "OpenCode"}) =>
        pa_prompt = build_prompt(pa_messages)

\* ------------------------------------------------------------------------
\* Properties of the MCP server state
\* ------------------------------------------------------------------------

\* C32: setting the active provider to p, from any state and also when p is
\* already active, leaves the active provider p and the active model none,
\* and changes neither the multiplex provider list nor the adapter cache.
SetProviderFrame ==
    [][\A t \in ToolTasks :
          (At(t, "set_active_provider") /\ ts_tasks'[t].pc = ts_tasks[t].pc + 1) =>
              /\ ts_state'.active_provider =
                     parse_runner_type(ts_tasks[t].provider_arg)
              /\ ts_state'.active_model = NoModel
              /\ ts_state'.multiplex_providers = ts_state.multiplex_providers
              /\ ts_state'.runners = ts_state.runners]_vars

\* a set_provider call has just reset a model that had been chosen, with a
\* multiplex list in place
SetProviderFrameWitness ==
    \E t \in ToolTasks :
        /\ ts_tasks[t].tool = "set_provider"
        /\ At(t, "drop")
        /\ SomeModel(<<"m1">>) \in {h.model : h \in ts_history}
        /\ ts_state.active_model = NoModel
        /\ ts_state.multiplex_providers # <<>>

\* the prompt calls that have reached the completion
Prompting(t) ==
    /\ ts_tasks[t].tool = "prompt"
    /\ At(t, "complete") \/ At(t, "reply")

\* C40: a single-provider prompt completes with a (provider, model) pair
\* that was the active pair of the server state at one instant, whatever
\* set_provider and set_model calls run beside it, and it does not hold the
\* state lock while the completion runs.
PromptUsesOneSnapshot ==
    \A t \in ToolTasks :
        Prompting(t) =>
            /\ [provider |-> ts_tasks[t].provider, model |-> ts_tasks[t].model]
                   \in ts_history
            /\ ts_lock # t

\* a prompt is completing with the pair it read while another call has
\* since made a different pair active
PromptUsesOneSnapshotWitness ==
    \E t \in ToolTasks :
        /\ ts_tasks[t].tool = "prompt"
        /\ At(t, "complete")
        /\ ts_tasks[t].model # NoModel
        /\ ts_state.active_provider # ts_tasks[t].provider

\* ------------------------------------------------------------------------
\* Properties of the text tool loop
\* ------------------------------------------------------------------------

\* C33: the text tool loop returns whatever the provider answers; it makes
\* at most min(max_iterations, 10) completions; it returns at the first
\* response without tool calls; and when every response had tool calls it
\* returns finish_reason "max_iterations" with tool_calls_count equal to the
\* number of handler invocations made.
ToolLoopTerminates ==
    /\ [](tl_completions <= Min(tl_max_iterations, 10))
    /\ [](tl_plain <= 1 /\ (tl_plain = 1 => tl_pc = "returned"))
    /\ []((tl_pc = "returned" /\ tl_result.kind = "Ok" /\ tl_plain = 0) =>
             /\ tl_result.finish_reason = "max_iterations"
             /\ tl_result.tool_calls_count = tl_handled
             /\ tl_completions = Min(tl_max_iterations, 10))
    /\ <>(tl_pc = "returned")

\* the loop ran into the ceiling with a larger max_iterations and returned
\* the count of the handler invocations
ToolLoopTerminatesWitness ==
    /\ tl_pc = "returned"
    /\ tl_max_iterations > MAX_TOOL_ITERATIONS
    /\ tl_result.finish_reason = "max_iterations"
    /\ tl_completions = MAX_TOOL_ITERATIONS
    /\ tl_result.tool_calls_count = tl_handled
    /\ tl_handled > MAX_TOOL_ITERATIONS

\* ------------------------------------------------------------------------
\* Progress of the adapter registry
\* ------------------------------------------------------------------------

\* C34: every get_runner call eventually returns, also a call for another
\* kind made while the construction of one kind waits for an external
\* command that never exits.
GetRunnerReturns ==
    \A i \in Callers : (rg_pc[i] = "Waiting") ~> (rg_pc[i] = "Returned")

\* the calls for kinds whose constructor runs no command return when the
\* probe of the Copilot constructor exits
GetRunnerReturnsIfGhExits ==
    (\A i \in Callers : WF_vars(GhExits(i))) => GetRunnerReturns

\* ------------------------------------------------------------------------
\* Progress of the bounded run
\* ------------------------------------------------------------------------

\* C35: a bounded run eventually returns: with the child's output when the
\* child exits before the timeout, also when a process the child started
\* keeps the stdout or stderr pipe open, and with an error when the timeout
\* fires; it never waits without bound on a drainer.
BoundedRunReturns ==
    UsesBoundedRun(invocation) => <>(run_pc = "returned")

\* a bounded run whose child started no process that outlives it returns
BoundedRunReturnsWithoutDescendant ==
    (UsesBoundedRun(invocation) /\ [](descendant # "holding")) =>
        <>(run_pc = "returned")

\* ------------------------------------------------------------------------
\* Provider names of the multiplex outcomes
\* ------------------------------------------------------------------------

\* C36: the provider field of every multiplex outcome names the provider at
\* the same position of the input list, also in the outcome recorded for a
\* task that crashed.
OutcomeNamesItsProvider ==
    \A j \in 1..Len(responses) :
        responses[j].provider = KindToString(providers[j])

\* the outcomes of the tasks that did not crash do name their provider
UncrashedOutcomeNamesItsProvider ==
    \A j \in 1..Len(responses) :
        t_pc[j] # "Crashed" =>
            responses[j].provider = KindToString(providers[j])

\* ------------------------------------------------------------------------
\* Frame of the session map
\* ------------------------------------------------------------------------

\* C37: the session map of an adapter changes only when a non-streaming
\* completion whose request has a model returns successfully with a session
\* id, and then only in the entry of that model; failed completions,
\* completions without a request model and streaming completions leave the
\* map as it was.
SessionMapChangedOnlyBySuccess ==
    [][session_ids' # session_ids =>
          \E c \in 1..MaxCalls, m \in ModelNames, sid \in SessionIds :
              /\ HasSessions(a_kind)
              /\ calls[c].pc = "running"
              /\ calls'[c].pc = "idle"
              /\ calls[c].mode # "stream"
              /\ calls[c].request.model = m
              /\ stored_last'[m] = sid
              /\ session_ids' = [session_ids EXCEPT ![m] = sid]]_vars

\* the map holds a session for one model and none for the other, which a
\* streaming completion in flight names
SessionMapChangedOnlyBySuccessWitness ==
    /\ session_ids["m1"] # None
    /\ session_ids["m2"] = None
    /\ \E c \in 1..MaxCalls :
          /\ calls[c].pc = "running"
          /\ calls[c].mode = "stream"
          /\ calls[c].request.model = "m2"

\* ------------------------------------------------------------------------
\* The [DONE] sentinel of the SSE response
\* ------------------------------------------------------------------------

\* C38: for every chunk stream, empty, ending without a final chunk, or
\* with error items at any position, the SSE response has [DONE] exactly
\* once and as its last event once the stream has ended (and not before);
\* every item is one event, an error item one error event, and the events
\* of the items after it and [DONE] follow it.
DoneOnceAndLast ==
    LET ev == SseEvents
        n == Len(ev)
    IN  /\ n = Len(s_items) + (IF s_ended THEN 1 ELSE 0)
        /\ \A i \in 1..Len(s_items) :
               (s_items[i].kind = "error") <=> (ev[i].kind = "error")
        /\ \A i \in 1..n : (ev[i].kind = "done") <=> (s_ended /\ i = n)

\* a stream that ended without a final chunk, with an error item before a
\* chunk
DoneOnceAndLastWitness ==
    /\ s_ended
    /\ Len(s_items) >= 2
    /\ s_items[1].kind = "error"
    /\ s_items[2].kind = "chunk"
    /\ \A i \in 1..Len(s_items) :
          s_items[i].kind = "chunk" => ~s_items[i].is_final
    /\ SseEvents[Len(SseEvents)] = SseDone
\* ------------------------------------------------------------------------
\* Listed model ids as addresses
\* ------------------------------------------------------------------------

\* C39: every id listed by GET /v1/models, sent back as the model of a
\* completion request, resolves under any default provider to the provider
\* that listed it and to the listed model.
ListedIdResolvesBack ==
    ml_pc = "resolved" =>
        /\ ml_resolved.runner_type = ml_data[ml_sent].kind
        /\ ml_resolved.model = ml_data[ml_sent].model

\* the ids of the providers other than Claude Code resolve back
OtherListedIdsResolveBack ==
    (ml_pc = "resolved" /\ ml_data[ml_sent].kind # "ClaudeCode") =>
        /\ ml_resolved.runner_type = ml_data[ml_sent].kind
        /\ ml_resolved.model = ml_data[ml_sent].model

====
